---------------------------- MODULE Spec2Model ----------------------------
(***************************************************************************)
(* Logic trees of openquake.commonlib.logictree: the construction state    *)
(* machine of BaseLogicTree (parse_tree, parse_branchinglevel,             *)
(* parse_branchset, parse_branches, apply_branchset) with the hooks of     *)
(* SourceModelLogicTree and GMPELogicTree, path enumeration and sampling,  *)
(* and the flat GsimLogicTree.                                             *)
(*                                                                         *)
(* Representation.                                                         *)
(*  - A weight is a Decimal with one fractional digit, held as its number  *)
(*    of tenths: One = 10 is Decimal('1.0').  The weight of a path of n    *)
(*    branches is the product of n such numbers, in units of 1/One^n.      *)
(*  - The branch ids of a document are numbered in order of first          *)
(*    appearance, so a Branch object is identified by its id and           *)
(*    self.branches (id -> Branch) is a sequence indexed by id.            *)
(*  - A BranchSet object is identified by its creation index in            *)
(*    branchsets; 0 stands for None.                                       *)
(*  - The document is revealed node by node: each parsing step draws the   *)
(*    part of the XML node that the code reads at that step.               *)
(*  - Documents are schema-valid, the uncertaintyModel texts have the      *)
(*    shape their (tree kind, uncertainty type) expects, and the source    *)
(*    model files exist: float(), GSIM[...] and file() do not raise.       *)
(***************************************************************************)
EXTENDS Integers, Sequences, FiniteSets, TLC

VARIABLES
    kind,           \* "SM": SourceModelLogicTree, "GMPE": GMPELogicTree
    validate,       \* constructor argument validate
    seed,           \* constructor argument seed
    num_samples,    \* constructor argument num_samples
    branches,       \* self.branches: id -> Branch (weight, value, child_branchset)
    branchsets,     \* the BranchSet objects created so far, in creation order
    root_branchset, \* self.root_branchset (0 = None)
    open_ends,      \* self.open_ends
    new_open_ends,  \* local new_open_ends of parse_branchinglevel
    depth,          \* index of the branching level being parsed (levels parsed so far)
    number,         \* index of the next branchset node inside the level
    pc,             \* position of the constructor / state of the tree
    node,           \* attributes of the branchset node being processed
    weight_sum,     \* local weight_sum of parse_branches
    source_ids,     \* SourceModelLogicTree.source_ids
    source_types,   \* SourceModelLogicTree.source_types
    tectonic_region_types,          \* SM: collected; GMPE: constructor argument
    defined_tectonic_region_types,  \* GMPELogicTree.defined_tectonic_region_types
    err,            \* the exception that aborted construction or iteration
    runs,           \* the realizations yielded by each completed iteration
    rnd,            \* state of the random.Random of the iteration in progress
    calls,          \* the method calls made on the constructed tree, with what they returned
    gsim_pc,        \* GsimLogicTree: position of the constructor / state of the tree
    filter_keys,    \* GsimLogicTree.filter_keys (sorted)
    logicTree,      \* the levels _parse_lt has read: first branchset, and whether there are more
    branchset,      \* _parse_lt: the branchset node whose branches are being read
    fkeys,          \* _parse_lt: local fkeys
    weights,        \* _parse_lt: local weights
    parsed,         \* the BranchTuples _parse_lt has yielded, in document order
    values,         \* GsimLogicTree.values: filter key -> uncertainties
    gsim_branches,  \* GsimLogicTree.branches
    gsim_err,       \* the exception that aborted GsimLogicTree.__init__
    gsim_runs,      \* the realizations yielded by each iteration of the GsimLogicTree
    num_paths,      \* the results of the calls of get_num_paths
    split_pc,       \* SequenceSplitter: position of the constructor / of _split_on_max_weight
    num_blocks,     \* SequenceSplitter.num_blocks
    max_block_size, \* SequenceSplitter.max_block_size
    max_weight,     \* SequenceSplitter.max_weight
    sequence,       \* _split_on_max_weight: the weights of the items not yet read
    ws,             \* _split_on_max_weight: local ws
    blocks          \* the WeightedSequences _split_on_max_weight has yielded

treeVars == <<branches, branchsets, root_branchset, open_ends, new_open_ends>>
posVars == <<depth, number, pc, node, weight_sum>>
argVars == <<kind, validate, seed, num_samples>>
hookVars == <<source_ids, source_types, tectonic_region_types,
              defined_tectonic_region_types>>
gsimVars == <<gsim_pc, filter_keys, logicTree, branchset, fkeys, weights, parsed,
              values, gsim_branches, gsim_err, gsim_runs, num_paths>>
splitVars == <<split_pc, num_blocks, max_block_size, max_weight, sequence, ws, blocks>>
vars == <<argVars, treeVars, posVars, hookVars, err, runs, rnd, calls, gsimVars,
          splitVars>>

-----------------------------------------------------------------------------
(* Bounds of the explored documents *)

MaxLevels == 3        \* branching levels per document
MaxBranchsets == 2    \* branchset nodes per branching level
MaxBranches == 2      \* branches per branchset node
MaxNodes == 3         \* branchset nodes parsed (not skipped) per document
MaxTreeBranches == 4  \* branches per document
MaxApply == 2         \* ids listed in one applyToBranches attribute
MaxSamples == 2       \* num_samples
MaxIterations == 2    \* iterations of one constructed tree

(* Decimal('1.0') in tenths *)
One == 10

DrawsPerTenth == 2    \* a uniform draw is a multiple of 1 / (DrawsPerTenth * One)

Weights == {3, 4, 6, 7, One}

Seeds == {0, 13}

NoError == [kind |-> "none", msg |-> "", arg |-> {}]
NoNode == [uncertaintyType |-> "", attrib |-> <<>>]

FILTERS == {"applyToTectonicRegionType", "applyToSources", "applyToSourceType"}

UncertaintyTypes == {"sourceModel", "gmpeModel", "bGRRelative",
                     "maxMagGRRelative", "abGRAbsolute", "maxMagGRAbsolute"}


-----------------------------------------------------------------------------
(* Exceptions *)

ValidationError(msg, arg) == [kind |-> "ValidationError", msg |-> msg, arg |-> arg]
KeyError(key) == [kind |-> "KeyError", msg |-> "KeyError", arg |-> {key}]

(* The source model files a sourceModel branch can reference, and the sources
   (id, source type tag, tectonicRegion) each of them holds. *)
SourceModelFiles == {"smA", "smB"}

SourceModel(file) ==
    IF file = "smA"
    THEN {[id |-> "s1", type |-> "point", trt |-> "T1"]}
    ELSE {[id |-> "s1", type |-> "point", trt |-> "T1"],
          [id |-> "s2", type |-> "area", trt |-> "T2"]}

(* hazardlib's registry of GSIM classes, by name *)
GSIM == {"G1", "G2"}

(* The tectonic region types given to GMPELogicTree's constructor *)
KnownTectonicRegionTypes == {"T1", "T2"}

-----------------------------------------------------------------------------
(* SourceModelLogicTree hooks *)

AbsoluteUncertainties == {"abGRAbsolute", "maxMagGRAbsolute"}

NoUndefinedSourcePositions(ids) == {}

(* the ids of an applyToSources list that were not seen in the source models *)
UndefinedSourcePositions(ids) == {i \in 1..Len(ids) : ids[i] \notin source_ids}

FirstUndefinedSource(ids) ==
    ids[CHOOSE i \in UndefinedSourcePositions(ids) :
            \A j \in UndefinedSourcePositions(ids) : i <= j]

OneFilterAllowed(filters) == Cardinality(DOMAIN filters) <= 1

AbsoluteFilterUnchecked(filters) == TRUE

AbsoluteFilterOk(filters) ==
    /\ DOMAIN filters = {"applyToSources"}
    /\ Len(filters["applyToSources"]) = 1

SMValidateFilters(uncertainty_type, filters) ==
    IF uncertainty_type = "sourceModel" /\ DOMAIN filters # {}
    THEN ValidationError("filters are not allowed on source model uncertainty", {})
    ELSE IF ~OneFilterAllowed(filters)
    THEN ValidationError("only one filter is allowed per branchset", {})
    ELSE IF /\ "applyToTectonicRegionType" \in DOMAIN filters
            /\ filters["applyToTectonicRegionType"] \notin tectonic_region_types
    THEN ValidationError("source models don't define sources of tectonic region type",
                         {filters["applyToTectonicRegionType"]})
    ELSE IF /\ "applyToSourceType" \in DOMAIN filters
            /\ filters["applyToSourceType"] \notin source_types
    THEN ValidationError("source models don't define sources of type",
                         {filters["applyToSourceType"]})
    ELSE IF /\ "applyToSources" \in DOMAIN filters
            /\ UndefinedSourcePositions(filters["applyToSources"]) # {}
    THEN ValidationError("source with id is not defined in source models",
                         {FirstUndefinedSource(filters["applyToSources"])})
    ELSE IF /\ uncertainty_type \in AbsoluteUncertainties
            /\ ~AbsoluteFilterOk(filters)
    THEN ValidationError("uncertainty must define 'applyToSources' with only one source id",
                         {uncertainty_type})
    ELSE NoError

(* validate_branchset, had it checked the first branching level only *)
SMValidateFirstLevel(d, n, uncertainty_type) ==
    IF d = 0 /\ n > 0
    THEN ValidationError("there must be only one branch set on first branching level", {})
    ELSE IF d = 0 /\ uncertainty_type # "sourceModel"
    THEN ValidationError("first branchset must define an uncertainty of type sourceModel", {})
    ELSE NoError

SMValidateBranchset(d, n, uncertainty_type) ==
    IF d = 0
    THEN IF n > 0
         THEN ValidationError("there must be only one branch set on first branching level", {})
         ELSE IF uncertainty_type # "sourceModel"
         THEN ValidationError("first branchset must define an uncertainty of type sourceModel", {})
         ELSE NoError
    ELSE IF uncertainty_type = "sourceModel"
         THEN ValidationError("uncertainty of type sourceModel can be defined on first branchset only", {})
         ELSE IF uncertainty_type = "gmpeModel"
         THEN ValidationError("uncertainty of type gmpeModel is not allowed in source model logic tree", {})
         ELSE NoError

(* collect_source_model_data: what scanning one source model file records *)
CollectedIds(file) == source_ids \cup {s.id : s \in SourceModel(file)}
CollectedTypes(file) == source_types \cup {s.type : s \in SourceModel(file)}
CollectedTrts(file) == tectonic_region_types \cup {s.trt : s \in SourceModel(file)}

(* parse_uncertainty_value: the file name as it is, a pair of floats, or a float *)
SMParseUncertaintyValue(uncertainty_type, text) ==
    IF uncertainty_type = "sourceModel" THEN text
    ELSE IF uncertainty_type = "abGRAbsolute" THEN [a |-> text[1], b |-> text[2]]
    ELSE text[1]

-----------------------------------------------------------------------------
(* GMPELogicTree hooks *)

(* a tree that skips no branchset *)
SkipNoBranchset(attrs) == FALSE

SkipBranchsetCondition(attrs) ==
    attrs["applyToTectonicRegionType"] \notin tectonic_region_types

GMPEValidateFilters(filters) ==
    IF \/ DOMAIN filters = {}
       \/ Cardinality(DOMAIN filters) > 1
       \/ DOMAIN filters # {"applyToTectonicRegionType"}
    THEN ValidationError("branch sets in gmpe logic tree must define only applyToTectonicRegionType filter", {})
    ELSE IF filters["applyToTectonicRegionType"] \notin tectonic_region_types
    THEN ValidationError("source models don't define sources of tectonic region type",
                         {filters["applyToTectonicRegionType"]})
    ELSE IF filters["applyToTectonicRegionType"] \in defined_tectonic_region_types
    THEN ValidationError("gmpe uncertainty for tectonic region type has already been defined",
                         {filters["applyToTectonicRegionType"]})
    ELSE NoError

GMPEValidateBranchset(n, uncertainty_type) ==
    IF uncertainty_type # "gmpeModel"
    THEN ValidationError("only uncertainties of type gmpeModel are allowed in gmpe logic tree", {})
    ELSE IF n # 0
    THEN ValidationError("only one branchset on each branching level is allowed in gmpe logic tree", {})
    ELSE NoError

MissingTrts == tectonic_region_types \ defined_tectonic_region_types

GMPEValidateTreeUnchecked == NoError

GMPEValidateTree ==
    IF MissingTrts # {}
    THEN ValidationError("tectonic region types defined in source model logic tree but not in gmpe logic tree",
                         MissingTrts)
    ELSE NoError

(* parse_uncertainty_value: the GSIM class registered under the name *)
GMPEParseUncertaintyValue(classname) == [gsim |-> classname]

-----------------------------------------------------------------------------
(* The branchset nodes of the explored documents: uncertaintyType and the
   filter attributes present on the node.  applyToSources holds the ids of
   its space-separated list. *)

Filter(name, value) == name :> value
NoFilters == <<>>

BranchSetNode(uncertainty_type, attrib) ==
    [uncertaintyType |-> uncertainty_type, attrib |-> attrib]

TreeNodes(k) ==
    IF k = "SM"
    THEN {BranchSetNode("sourceModel", NoFilters),
          BranchSetNode("bGRRelative", NoFilters),
          BranchSetNode("abGRAbsolute", Filter("applyToSources", <<"s1">>))}
    ELSE {BranchSetNode("gmpeModel", Filter("applyToTectonicRegionType", "T1")),
          BranchSetNode("gmpeModel", Filter("applyToTectonicRegionType", "T2")),
          BranchSetNode("gmpeModel", Filter("applyToTectonicRegionType", "T3")),
          BranchSetNode("gmpeModel", NoFilters),
          BranchSetNode("bGRRelative", Filter("applyToTectonicRegionType", "T2"))}

(* The uncertaintyModel text of the i-th branch of a node.  In the explored
   documents the branches of one node carry different texts: the i-th text
   of the shape its (tree kind, uncertainty type) expects. *)
UncertaintyText(k, uncertainty_type, i) ==
    IF k = "GMPE" THEN (IF i % 2 = 1 THEN "G1" ELSE "G2")
    ELSE IF uncertainty_type = "sourceModel"
    THEN (IF i % 2 = 1 THEN "smA" ELSE "smB")
    ELSE IF uncertainty_type = "abGRAbsolute" THEN <<i, i + 1>>
    ELSE <<i>>

-----------------------------------------------------------------------------
(* Construction: BaseLogicTree.__init__ and parse_tree *)

(* Python's None where the model holds an integer *)
NoneInt == 0 - 1

(* WeightedSequence(): the items (here their ranks among the items of positive weight) and the
   total weight *)
NewWeightedSequence == [_seq |-> <<>>, weight |-> 0]

TectonicRegionTypes == KnownTectonicRegionTypes \cup {"T3"}

NoBranchset == [branchSetID |-> 0, uncertaintyType |-> "", attrib |-> <<>>]

(* no GsimLogicTree is being constructed *)
NoGsimLogicTree ==
    /\ gsim_pc = "idle"
    /\ filter_keys = <<>>
    /\ logicTree = <<>>
    /\ branchset = NoBranchset
    /\ fkeys = <<>>
    /\ weights = <<>>
    /\ parsed = <<>>
    /\ values = [fkey \in TectonicRegionTypes |-> <<>>]
    /\ gsim_branches = <<>>
    /\ gsim_err = NoError
    /\ gsim_runs = <<>>
    /\ num_paths = <<>>

(* no SequenceSplitter has been created *)
NoSequenceSplitter ==
    /\ split_pc = "idle"
    /\ num_blocks = 1
    /\ max_block_size = NoneInt
    /\ max_weight = NoneInt
    /\ sequence = <<>>
    /\ ws = NewWeightedSequence
    /\ blocks = <<>>

NewLogicTree ==
    /\ kind \in {"SM", "GMPE"}
    /\ validate \in BOOLEAN
    /\ seed = 0
    /\ num_samples = 0
    /\ branches = <<>>
    /\ branchsets = <<>>
    /\ root_branchset = 0
    /\ open_ends = {}
    /\ new_open_ends = {}
    /\ depth = 0
    /\ number = 0
    /\ pc = "branchset"
    /\ node = NoNode
    /\ weight_sum = 0
    /\ source_ids = {}
    /\ source_types = {}
    /\ tectonic_region_types = IF kind = "GMPE" THEN KnownTectonicRegionTypes ELSE {}
    /\ defined_tectonic_region_types = {}
    /\ err = NoError
    /\ runs = <<>>
    /\ rnd = 0
    /\ calls = <<>>

Init ==
    /\ NewLogicTree
    /\ NoGsimLogicTree
    /\ NoSequenceSplitter

(* An exception leaves the constructor: no tree is returned *)
Abort(e) ==
    /\ pc' = "error"
    /\ err' = e
    /\ branches' = <<>>
    /\ branchsets' = <<>>
    /\ root_branchset' = 0
    /\ open_ends' = {}
    /\ new_open_ends' = {}
    /\ weight_sum' = 0

ValidateFilters(h) ==
    IF kind = "SM" THEN SMValidateFilters(h.uncertaintyType, h.attrib)
    ELSE GMPEValidateFilters(h.attrib)

ValidateBranchset(h) ==
    IF kind = "SM" THEN SMValidateBranchset(depth, number, h.uncertaintyType)
    ELSE GMPEValidateBranchset(number, h.uncertaintyType)

NewBranchSet(h) ==
    [uncertainty_type |-> h.uncertaintyType, filters |-> h.attrib,
     branches |-> <<>>, level |-> depth]

(* parse_branchinglevel, one turn of its loop up to parse_branchset:
   skip_branchset_condition, then parse_branchset *)
ParseBranchset(h) ==
    /\ pc = "branchset"
    /\ depth < MaxLevels
    /\ number < MaxBranchsets
    /\ Len(branchsets) < MaxNodes
    /\ node' = h
    /\ UNCHANGED <<calls, splitVars, gsimVars, argVars, runs, rnd, depth, source_ids, source_types,
                   tectonic_region_types>>
    /\ IF kind = "GMPE" /\ "applyToTectonicRegionType" \notin DOMAIN h.attrib
       THEN /\ Abort(KeyError("applyToTectonicRegionType"))
            /\ UNCHANGED <<number, defined_tectonic_region_types>>
       ELSE IF kind = "GMPE" /\ SkipBranchsetCondition(h.attrib)
       THEN /\ number' = number + 1
            /\ UNCHANGED <<treeVars, pc, weight_sum, err,
                           defined_tectonic_region_types>>
       ELSE IF validate /\ ValidateFilters(h) # NoError
       THEN /\ Abort(ValidateFilters(h))
            /\ UNCHANGED <<number, defined_tectonic_region_types>>
       ELSE /\ defined_tectonic_region_types' =
                  IF validate /\ kind = "GMPE"
                  THEN defined_tectonic_region_types
                          \cup {h.attrib["applyToTectonicRegionType"]}
                  ELSE defined_tectonic_region_types
            /\ IF validate /\ ValidateBranchset(h) # NoError
               THEN /\ Abort(ValidateBranchset(h))
                    /\ UNCHANGED number
               ELSE /\ branchsets' = Append(branchsets, NewBranchSet(h))
                    /\ pc' = "branches"
                    /\ weight_sum' = 0
                    /\ UNCHANGED <<branches, root_branchset, open_ends,
                                   new_open_ends, number, err>>

(* the branchset being filled: the one parse_branchset returned last *)
cur == Len(branchsets)

ParseUncertaintyValue(uncertainty_type, text) ==
    IF kind = "SM" THEN SMParseUncertaintyValue(uncertainty_type, text)
    ELSE GMPEParseUncertaintyValue(text)

(* the uncertaintyModel text of the branch node parse_branches is at *)
BranchText ==
    UncertaintyText(kind, branchsets[cur].uncertainty_type,
                    Len(branchsets[cur].branches) + 1)

NewBranch(weight, value) ==
    [weight |-> weight, value |-> value, child_branchset |-> 0]

BranchIdIsUniqueUnchecked(branch_id) == TRUE

BranchIdIsUnique(branch_id) == branch_id \notin DOMAIN branches

(* self.branches[branch_id] = branch *)
InsertBranch(branch_id, branch) ==
    IF branch_id \in DOMAIN branches
    THEN [branches EXCEPT ![branch_id] = branch]
    ELSE Append(branches, branch)

(* parse_branches, one turn of its loop: the next logicTreeBranch of the node *)
ParseBranch(branch_id, weight) ==
    /\ pc = "branches"
    /\ Len(branchsets[cur].branches) < MaxBranches
    /\ Len(branches) < MaxTreeBranches
    /\ UNCHANGED <<calls, splitVars, gsimVars, argVars, runs, rnd, depth, number, node,
                   defined_tectonic_region_types>>
    /\ IF validate /\ kind = "SM" /\ branchsets[cur].uncertainty_type = "sourceModel"
       THEN /\ source_ids' = CollectedIds(BranchText)
            /\ source_types' = CollectedTypes(BranchText)
            /\ tectonic_region_types' = CollectedTrts(BranchText)
       ELSE UNCHANGED <<source_ids, source_types, tectonic_region_types>>
    /\ IF ~BranchIdIsUnique(branch_id)
       THEN Abort(ValidationError("branchID is not unique", {ToString(branch_id)}))
       ELSE /\ weight_sum' = weight_sum + weight
            /\ branches' = InsertBranch(branch_id,
                   NewBranch(weight,
                             ParseUncertaintyValue(branchsets[cur].uncertainty_type, BranchText)))
            /\ branchsets' = [branchsets EXCEPT ![cur].branches = Append(@, branch_id)]
            /\ UNCHANGED <<root_branchset, open_ends, new_open_ends, pc, err>>

WeightsSumAtLeastOne(total) == total >= One

WeightsSumToOne(total) == total = One

(* parse_branches after its loop: the check of the weights' sum *)
EndParseBranches ==
    /\ pc = "branches"
    /\ UNCHANGED <<calls, splitVars, gsimVars, argVars, runs, rnd, depth, number, node, hookVars>>
    /\ IF ~WeightsSumToOne(weight_sum)
       THEN Abort(ValidationError("branchset weights don't sum up to 1.0", {}))
       ELSE /\ pc' = "apply"
            /\ UNCHANGED <<treeVars, weight_sum, err>>

(* BaseLogicTree.apply_branchset, had it linked every branch without a child *)
ApplyToChildless(bs) ==
    [b \in DOMAIN branches |->
        IF branches[b].child_branchset = 0 THEN [branches[b] EXCEPT !.child_branchset = bs]
        ELSE branches[b]]

(* BaseLogicTree.apply_branchset: the child of every open end *)
ApplyToOpenEnds(bs) ==
    [b \in DOMAIN branches |->
        IF b \in open_ends THEN [branches[b] EXCEPT !.child_branchset = bs]
        ELSE branches[b]]

(* SourceModelLogicTree.apply_branchset, had it not looked at open_ends *)
ApplyErrorIgnoringOpenEnds(ids, i) ==
    IF ids[i] \notin DOMAIN branches
    THEN ValidationError("branch is not yet defined", {ToString(ids[i])})
    ELSE IF \/ branches[ids[i]].child_branchset # 0
            \/ \E j \in 1..(i - 1) : ids[j] = ids[i]
    THEN ValidationError("branch already has child branchset", {ToString(ids[i])})
    ELSE NoError

(* SourceModelLogicTree.apply_branchset with applyToBranches: the position
   of the first listed id that raises (0 if none), and the error it raises *)
ApplyError(ids, i) ==
    IF ids[i] \notin DOMAIN branches
    THEN ValidationError("branch is not yet defined", {ToString(ids[i])})
    ELSE IF \/ branches[ids[i]].child_branchset # 0
            \/ \E j \in 1..(i - 1) : ids[j] = ids[i]
    THEN ValidationError("branch already has child branchset", {ToString(ids[i])})
    ELSE IF ids[i] \notin open_ends
    THEN ValidationError("applyToBranches must reference only branches from previous branching level", {})
    ELSE NoError

(* SourceModelLogicTree.apply_branchset, had it not checked the listed ids *)
FirstApplyErrorUnchecked(ids) == NoError

FirstApplyError(ids) ==
    IF \E i \in 1..Len(ids) : ApplyError(ids, i) # NoError
    THEN ApplyError(ids, CHOOSE i \in 1..Len(ids) :
                            /\ ApplyError(ids, i) # NoError
                            /\ \A j \in 1..(i - 1) : ApplyError(ids, j) = NoError)
    ELSE NoError

ApplyToBranches(ids, bs) ==
    [b \in DOMAIN branches |->
        IF \E i \in 1..Len(ids) : ids[i] = b
        THEN [branches[b] EXCEPT !.child_branchset = bs]
        ELSE branches[b]]

(* the applyToBranches attribute of the node: absent or empty (<<>>), or a
   list of branch ids, defined or not *)
ApplyToBranchesTexts ==
    {<<>>} \cup UNION {[1..n -> 1..(Len(branches) + 1)] : n \in 1..MaxApply}

(* parse_branchinglevel, had only the first branch of a branchset joined
   new_open_ends *)
FirstBranchOf(bs) == {branchsets[bs].branches[1]}

BranchSetOf(bs) == {branchsets[bs].branches[i] : i \in 1..Len(branchsets[bs].branches)}

(* parse_branchinglevel, the rest of the turn: the root or apply_branchset,
   then the branches join new_open_ends *)
ApplyBranchset(apply_to_branches) ==
    /\ pc = "apply"
    /\ UNCHANGED <<calls, splitVars, gsimVars, argVars, runs, rnd, depth, node, hookVars, branchsets>>
    /\ IF root_branchset = 0
       THEN /\ root_branchset' = cur
            /\ branches' = branches
            /\ new_open_ends' = new_open_ends \cup BranchSetOf(cur)
            /\ number' = number + 1
            /\ pc' = "branchset"
            /\ UNCHANGED <<open_ends, weight_sum, err>>
       ELSE IF kind = "SM" /\ apply_to_branches # <<>>
       THEN IF FirstApplyError(apply_to_branches) # NoError
            THEN /\ Abort(FirstApplyError(apply_to_branches))
                 /\ UNCHANGED number
            ELSE /\ branches' = ApplyToBranches(apply_to_branches, cur)
                 /\ new_open_ends' = new_open_ends \cup BranchSetOf(cur)
                 /\ number' = number + 1
                 /\ pc' = "branchset"
                 /\ UNCHANGED <<root_branchset, open_ends, weight_sum, err>>
       ELSE /\ branches' = ApplyToOpenEnds(cur)
            /\ new_open_ends' = new_open_ends \cup BranchSetOf(cur)
            /\ number' = number + 1
            /\ pc' = "branchset"
            /\ UNCHANGED <<root_branchset, open_ends, weight_sum, err>>

OpenEndsNotCleared == open_ends \cup new_open_ends

(* self.open_ends.clear(); self.open_ends.update(new_open_ends) *)
NextOpenEnds == new_open_ends

(* parse_branchinglevel, after its loop *)
EndBranchingLevel ==
    /\ pc = "branchset"
    /\ number >= 1
    /\ open_ends' = NextOpenEnds
    /\ new_open_ends' = {}
    /\ depth' = depth + 1
    /\ number' = 0
    /\ UNCHANGED <<calls, splitVars, gsimVars, argVars, runs, rnd, hookVars, branches, branchsets,
                   root_branchset, pc, node, weight_sum, err>>

ValidateTree == IF kind = "GMPE" THEN GMPEValidateTree ELSE NoError

(* parse_tree, after its loop: validate_tree, and the constructor returns.
   Construction never reads the arguments seed and num_samples that
   __init__ stored: their values are drawn here, when the tree is returned. *)
ParseTreeEnd(sd, n) ==
    /\ pc = "branchset"
    /\ number = 0
    /\ UNCHANGED <<calls, splitVars, gsimVars, kind, validate, runs, rnd, hookVars, depth, number, node>>
    /\ IF validate /\ ValidateTree # NoError
       THEN /\ Abort(ValidateTree)
            /\ UNCHANGED <<seed, num_samples>>
       ELSE /\ pc' = "done"
            /\ seed' = sd
            /\ num_samples' = n
            /\ UNCHANGED <<treeVars, weight_sum, err>>

-----------------------------------------------------------------------------
(* Enumeration: BranchSet.enumerate_paths *)

RECURSIVE EnumeratePathsFrom(_, _, _)
(* _enumerate_paths, from the i-th branch of branchset bs on: the paths in
   the order the generator yields them *)
EnumeratePathsFrom(bs, prefix_path, i) ==
    IF i > Len(branchsets[bs].branches) THEN <<>>
    ELSE LET branch == branchsets[bs].branches[i]
             path == Append(prefix_path, branch)
         IN  (IF branches[branch].child_branchset # 0
              THEN EnumeratePathsFrom(branches[branch].child_branchset, path, 1)
              ELSE <<path>>)
             \o EnumeratePathsFrom(bs, prefix_path, i + 1)

RECURSIVE WeightProduct(_, _)
(* weight *= branch.weight over the first n branches of the path, from 1 *)
WeightProduct(path, n) ==
    IF n = 0 THEN 1 ELSE WeightProduct(path, n - 1) * branches[path[n]].weight

RECURSIVE Power(_, _)
Power(x, n) == IF n = 0 THEN 1 ELSE x * Power(x, n - 1)

PathWeightOfLastBranch(path) == <<branches[path[Len(path)]].weight, One>>

RECURSIVE WeightSum(_, _)
WeightSum(path, n) ==
    IF n = 0 THEN 0 ELSE WeightSum(path, n - 1) + branches[path[n]].weight

PathWeightAdded(path) == <<WeightSum(path, Len(path)), One>>

(* An exact weight: num / den.  A product of n weights held in tenths is
   their product over One^n. *)
PathWeight(path) == <<WeightProduct(path, Len(path)), Power(One, Len(path))>>

None == <<>>

LtRealization(value, weight, lt_path) ==
    [value |-> value, weight |-> weight, lt_path |-> lt_path]

(* enumerate_paths and the full-enumeration arm of __iter__ *)
EnumerationRealizations ==
    LET paths == EnumeratePathsFrom(root_branchset, <<>>, 1)
    IN  [k \in 1..Len(paths) |->
            LtRealization(branches[paths[k][1]].value, PathWeight(paths[k]), paths[k])]

-----------------------------------------------------------------------------
(* Sampling: sample_one, sample, sample_path *)

(* random.Random: a generator whose stream is fixed by its seed.  A draw is a
   multiple of 1/RandomRange in [0, 1), held as its numerator. *)
RandomRange == DrawsPerTenth * One
RandomSeeded(sd) == sd % RandomRange
RandomDraw(state) == state
RandomAdvance(state) == (state + 7) % RandomRange

RECURSIVE CumulativeWeight(_, _)
(* acc after the first n branches of the list *)
CumulativeWeight(branch_list, n) ==
    IF n = 0 THEN 0
    ELSE CumulativeWeight(branch_list, n - 1) + branches[branch_list[n]].weight

(* sample_one, had it compared with acc > diceroll *)
ExceedsDiceroll(acc, diceroll) == acc * DrawsPerTenth > diceroll

(* acc >= diceroll, acc in tenths and diceroll in 1/RandomRange *)
ReachesDiceroll(acc, diceroll) == acc * DrawsPerTenth >= diceroll

(* sample_one: the first branch at which acc >= diceroll; 0 where the loop
   ends without one (AssertionError) *)
SampleOne(branch_list, diceroll) ==
    LET hits == {n \in 1..Len(branch_list) :
                    ReachesDiceroll(CumulativeWeight(branch_list, n), diceroll)}
    IN  IF hits = {} THEN 0
        ELSE branch_list[CHOOSE n \in hits : \A m \in hits : n <= m]

(* sample_path, had it stopped after its first draw *)
SamplePathOfOneBranch(bs, state, branch_ids) ==
    IF bs = 0 THEN [branch_ids |-> branch_ids, rnd |-> state, raised |-> FALSE]
    ELSE [branch_ids |-> Append(branch_ids,
                                SampleOne(branchsets[bs].branches, RandomDraw(state))),
          rnd |-> RandomAdvance(state), raised |-> FALSE]

RECURSIVE SamplePathFrom(_, _, _)
(* the loop of sample_path from branchset bs on, one draw per branchset *)
SamplePathFrom(bs, state, branch_ids) ==
    IF bs = 0 THEN [branch_ids |-> branch_ids, rnd |-> state, raised |-> FALSE]
    ELSE LET branch == SampleOne(branchsets[bs].branches, RandomDraw(state))
         IN  IF branch = 0
             THEN [branch_ids |-> branch_ids, rnd |-> RandomAdvance(state),
                   raised |-> TRUE]
             ELSE SamplePathFrom(branches[branch].child_branchset,
                                 RandomAdvance(state), Append(branch_ids, branch))

SamplePath(state) == SamplePathFrom(root_branchset, state, <<>>)

SampledOnce(n, state) ==
    LET p == SamplePath(state)
    IN  [yielded |-> IF p.raised THEN <<>>
                     ELSE <<LtRealization(branches[p.branch_ids[1]].value,
                                          None, p.branch_ids)>>,
         rnd |-> p.rnd,
         raised |-> p.raised]

RECURSIVE SampledRealizations(_, _)
(* the sampling arm of __iter__: n calls of sample_path on one generator *)
SampledRealizations(n, state) ==
    IF n = 0 THEN [yielded |-> <<>>, rnd |-> state, raised |-> FALSE]
    ELSE LET p == SamplePath(state)
         IN  IF p.raised THEN [yielded |-> <<>>, rnd |-> p.rnd, raised |-> TRUE]
             ELSE LET rest == SampledRealizations(n - 1, p.rnd)
                  IN  [yielded |-> <<LtRealization(branches[p.branch_ids[1]].value,
                                                    None, p.branch_ids)>>
                                     \o rest.yielded,
                       rnd |-> rest.rnd,
                       raised |-> rest.raised]

IterationGeneratorShared == rnd

(* the generator of one iteration: rnd = random.Random(self.seed) *)
IterationGenerator == RandomSeeded(seed)

BranchesDetached ==
    [b \in DOMAIN branches |-> [branches[b] EXCEPT !.child_branchset = 0]]

(* the Branch objects after a walk over the tree: enumerate_paths,
   sample_path and the make_ methods read them and assign nothing *)
BranchesAfterReading == branches

(* BaseLogicTree.__iter__, consumed to its end *)
Iterate ==
    /\ pc = "done"
    /\ err = NoError
    /\ Len(runs) < MaxIterations
    /\ branches' = BranchesAfterReading
    /\ UNCHANGED <<calls, splitVars, gsimVars, argVars, branchsets, root_branchset, open_ends,
                   new_open_ends, posVars, hookVars>>
    /\ IF root_branchset = 0
       THEN /\ err' = [kind |-> "AttributeError", msg |-> "root_branchset is None",
                       arg |-> {}]
            /\ UNCHANGED <<runs, rnd>>
       ELSE IF num_samples # 0
       THEN LET r == SampledRealizations(num_samples, IterationGenerator)
            IN  /\ rnd' = r.rnd
                /\ IF r.raised
                   THEN /\ err' = [kind |-> "AssertionError",
                                   msg |-> "do weights really sum up to 1.0?",
                                   arg |-> {}]
                        /\ UNCHANGED runs
                   ELSE /\ runs' = Append(runs, r.yielded)
                        /\ UNCHANGED err
       ELSE /\ runs' = Append(runs, EnumerationRealizations)
            /\ UNCHANGED <<rnd, err>>

-----------------------------------------------------------------------------
(* Methods called on a constructed tree with a path of branch ids *)

MaxCalls == 1   \* method calls on one constructed tree

Returned(value) == [raised |-> "none", value |-> value]
Raised(exception) == [raised |-> exception, value |-> None]

(* BranchSet.get_branch_by_id finds the branch *)
HasBranch(bs, branch_id) ==
    \E i \in DOMAIN branchsets[bs].branches : branchsets[bs].branches[i] = branch_id

RECURSIVE MakeTrtToGsimFrom(_, _, _, _)
(* the loop of make_trt_to_gsim from branchset bs on, the first i - 1 ids
   of the path already popped *)
MakeTrtToGsimFrom(bs, branch_ids, i, trt_to_gsim) ==
    IF bs = 0 THEN Returned(trt_to_gsim)
    ELSE IF i > Len(branch_ids) THEN Raised("IndexError")
    ELSE IF ~HasBranch(bs, branch_ids[i]) THEN Raised("AssertionError")
    ELSE IF "applyToTectonicRegionType" \notin DOMAIN branchsets[bs].filters
    THEN Raised("KeyError")
    ELSE LET trt == branchsets[bs].filters["applyToTectonicRegionType"]
         IN  IF trt \in DOMAIN trt_to_gsim THEN Raised("AssertionError")
             ELSE MakeTrtToGsimFrom(branches[branch_ids[i]].child_branchset,
                                    branch_ids, i + 1,
                                    (trt :> branches[branch_ids[i]].value) @@ trt_to_gsim)

MakeTrtToGsim(branch_ids) == MakeTrtToGsimFrom(root_branchset, branch_ids, 1, <<>>)

RECURSIVE MakeApplyUncertaintiesFrom(_, _, _, _)
(* the loop of make_apply_uncertainties: the list branchsets_and_uncertainties
   the returned closure walks, one apply_uncertainty call per entry *)
MakeApplyUncertaintiesFrom(bs, branch_ids, i, branchsets_and_uncertainties) ==
    IF bs = 0 THEN Returned(branchsets_and_uncertainties)
    ELSE IF i > Len(branch_ids) THEN Raised("IndexError")
    ELSE IF ~HasBranch(bs, branch_ids[i]) THEN Raised("AssertionError")
    ELSE MakeApplyUncertaintiesFrom(
             branches[branch_ids[i]].child_branchset, branch_ids, i + 1,
             IF branchsets[bs].uncertainty_type # "sourceModel"
             THEN Append(branchsets_and_uncertainties,
                         <<bs, branches[branch_ids[i]].value>>)
             ELSE branchsets_and_uncertainties)

(* the branchset in which the i-th id of a path is looked up: the one reached
   from root_branchset along the child links of the ids before it *)
PathBranchset(branch_ids, i) ==
    IF i = 1 THEN root_branchset ELSE branches[branch_ids[i - 1]].child_branchset

MakeApplyUncertaintiesOfEveryBranchset(branch_ids) ==
    Returned([i \in DOMAIN branch_ids |->
                 <<PathBranchset(branch_ids, i), branches[branch_ids[i]].value>>])

MakeApplyUncertainties(branch_ids) ==
    MakeApplyUncertaintiesFrom(root_branchset, branch_ids, 1, <<>>)

(* the paths the tree yields: those of enumerate_paths, which sample_path
   follows link by link *)
TreePaths ==
    IF root_branchset = 0 THEN {}
    ELSE {EnumerationRealizations[k].lt_path : k \in 1..Len(EnumerationRealizations)}

Call(method, args, returned) ==
    /\ pc = "done"
    /\ err = NoError
    /\ Len(calls) < MaxCalls
    /\ calls' = Append(calls, [method |-> method, args |-> args, returned |-> returned])
    /\ branches' = BranchesAfterReading
    /\ UNCHANGED <<argVars, branchsets, root_branchset, open_ends, new_open_ends,
                   posVars, hookVars, err, runs, rnd, gsimVars, splitVars>>

CallMakeTrtToGsim(branch_ids) ==
    /\ kind = "GMPE"
    /\ Call("make_trt_to_gsim", branch_ids, MakeTrtToGsim(branch_ids))

CallMakeApplyUncertainties(branch_ids) ==
    /\ kind = "SM"
    /\ Call("make_apply_uncertainties", branch_ids, MakeApplyUncertainties(branch_ids))

(* sample_path(rnd) on a generator seeded by the caller *)
CallSamplePath(sd) ==
    /\ root_branchset # 0
    /\ LET p == SamplePath(RandomSeeded(sd))
       IN  Call("sample_path", sd,
                IF p.raised THEN Raised("AssertionError")
                ELSE Returned(<<branches[p.branch_ids[1]].value, p.branch_ids>>))

Next ==
    \/ \E h \in TreeNodes(kind) : ParseBranchset(h)
    \/ \E b \in 1..(Len(branches) + 1), w \in Weights : ParseBranch(b, w)
    \/ EndParseBranches
    \/ \E a \in (IF kind = "SM" /\ root_branchset # 0
                 THEN ApplyToBranchesTexts ELSE {<<>>}) : ApplyBranchset(a)
    \/ EndBranchingLevel
    \/ \E sd \in Seeds, n \in {0, MaxSamples} : ParseTreeEnd(sd, n)
    \/ Iterate

Spec == Init /\ [][Next]_vars

(* Construction followed by iterations and method calls in any order *)
NextCalls ==
    \/ \E h \in TreeNodes(kind) : ParseBranchset(h)
    \/ \E b \in 1..(Len(branches) + 1), w \in Weights : ParseBranch(b, w)
    \/ EndParseBranches
    \/ \E a \in (IF kind = "SM" /\ root_branchset # 0
                 THEN ApplyToBranchesTexts ELSE {<<>>}) : ApplyBranchset(a)
    \/ EndBranchingLevel
    \/ \E n \in {0, MaxSamples} : ParseTreeEnd(IF n = 0 THEN 0 ELSE 13, n)
    \/ Iterate
    \/ \E branch_ids \in TreePaths : CallMakeTrtToGsim(branch_ids)
    \/ \E branch_ids \in TreePaths : CallMakeApplyUncertainties(branch_ids)
    \/ \E sd \in Seeds : CallSamplePath(sd)

SpecCalls == Init /\ [][NextCalls]_vars

-----------------------------------------------------------------------------
(* Source-model trees built with validation on, over documents whose
   second branchset carries any of the filter combinations a node can have *)

MaxFilterNodes == 2

FilterWeights == {4, 6, One}

SourceLists == {<<>>, <<"s1">>, <<"s2">>, <<"s9">>,
                <<"s1", "s2">>, <<"s1", "s9">>, <<"s9", "s8">>}

FilterAttribs ==
    {NoFilters}
       \cup {Filter("applyToTectonicRegionType", trt) : trt \in {"T1", "T2", "T3"}}
       \cup {Filter("applyToSourceType", type) : type \in {"point", "area", "complexFault"}}
       \cup {Filter("applyToSources", ids) : ids \in SourceLists}
       \cup {Filter("applyToSources", ids) @@ Filter("applyToTectonicRegionType", "T1") :
                ids \in {<<"s1">>, <<"s9">>}}
       \cup {Filter("applyToSourceType", "point") @@ Filter("applyToTectonicRegionType", "T1")}

FilterNodes ==
    {BranchSetNode(uncertainty_type, attrib) :
        uncertainty_type \in {"sourceModel", "bGRRelative", "abGRAbsolute", "maxMagGRAbsolute"},
        attrib \in FilterAttribs}

InitFilters ==
    /\ Init
    /\ kind = "SM"
    /\ validate = TRUE

NextFilters ==
    \/ \E h \in FilterNodes : Len(branchsets) < MaxFilterNodes /\ ParseBranchset(h)
    \/ \E b \in 1..(Len(branches) + 1), w \in FilterWeights : ParseBranch(b, w)
    \/ EndParseBranches
    \/ \E a \in (IF root_branchset # 0 THEN ApplyToBranchesTexts ELSE {<<>>}) :
          ApplyBranchset(a)
    \/ EndBranchingLevel
    \/ \E sd \in {0}, n \in {0} : ParseTreeEnd(sd, n)
    \/ Iterate

SpecFilters == InitFilters /\ [][NextFilters]_vars

-----------------------------------------------------------------------------
(* Sampling: small trees whose branchsets may hold branches of weight 0,
   iterated in sampling mode from every state of the generator *)

MaxSampleNodes == 2

SampleWeights == {0, 3, 7, One}

SampleSeeds == 0..(RandomRange - 1)

NextSample ==
    \/ \E h \in TreeNodes(kind) : Len(branchsets) < MaxSampleNodes /\ ParseBranchset(h)
    \/ \E b \in 1..(Len(branches) + 1), w \in SampleWeights : ParseBranch(b, w)
    \/ EndParseBranches
    \/ ApplyBranchset(<<>>)
    \/ EndBranchingLevel
    \/ \E sd \in SampleSeeds : ParseTreeEnd(sd, MaxSamples)
    \/ Iterate

SpecSample == Init /\ [][NextSample]_vars

-----------------------------------------------------------------------------
(* BranchSet.filter_source and apply_uncertainty *)

MaxApplyNodes == 2

(* hazardlib magnitude-frequency models: their family, the parameters the
   modifications touch, and the modifications mfd.modify has applied *)
TruncatedGRMFD ==
    [family |-> "TruncatedGRMFD", a_val |-> 4, b_val |-> 1, max_mag |-> 7,
     modified |-> <<>>]
EvenlyDiscretizedMFD ==
    [family |-> "EvenlyDiscretizedMFD", a_val |-> 0, b_val |-> 0, max_mag |-> 0,
     modified |-> <<>>]

(* hazardlib source objects: the sources of the source model files and a
   complex fault, each with either model *)
HazardlibSources ==
    {[source_id |-> s.id, class |-> s.type, tectonic_region_type |-> s.trt, mfd |-> mfd] :
        s \in SourceModel("smB") \cup {[id |-> "s3", type |-> "complexFault", trt |-> "T1"]},
        mfd \in {TruncatedGRMFD, EvenlyDiscretizedMFD}}

(* isinstance(source, ohs.<class>): AreaSource extends PointSource *)
IsInstance(source, class) ==
    IF class = "point" THEN source.class \in {"point", "area"}
    ELSE source.class = class

(* the orders in which self.filters.items() may yield the filters *)
KeyOrders(filters) ==
    {keys \in [1..Cardinality(DOMAIN filters) -> DOMAIN filters] :
        \A i, j \in DOMAIN keys : i # j => keys[i] # keys[j]}

InList(x, list) == \E i \in DOMAIN list : list[i] = x

RECURSIVE FilterSourceFrom(_, _, _, _)
(* the loop of filter_source from the i-th filter on: "True", "False", or
   the exception raised *)
FilterSourceFrom(filters, source, keys, i) ==
    IF i > Len(keys) THEN "True"
    ELSE LET key == keys[i]
             value == filters[key]
         IN  IF key = "applyToTectonicRegionType"
             THEN IF value # source.tectonic_region_type THEN "False"
                  ELSE FilterSourceFrom(filters, source, keys, i + 1)
             ELSE IF key = "applyToSourceType"
             THEN IF value = "area"
                  THEN IF ~IsInstance(source, "area") THEN "False"
                       ELSE FilterSourceFrom(filters, source, keys, i + 1)
                  ELSE IF value = "point"
                  THEN IF ~IsInstance(source, "point") \/ IsInstance(source, "area")
                       THEN "False"
                       ELSE FilterSourceFrom(filters, source, keys, i + 1)
                  ELSE IF value \in {"simpleFault", "complexFault", "characteristicFault"}
                  THEN IF ~IsInstance(source, value) THEN "False"
                       ELSE FilterSourceFrom(filters, source, keys, i + 1)
                  ELSE "AssertionError"
             ELSE IF key = "applyToSources"
             THEN IF ~InList(source.source_id, value) THEN "False"
                  ELSE FilterSourceFrom(filters, source, keys, i + 1)
             ELSE "AssertionError"

FilterSource(bs, source, keys) == FilterSourceFrom(branchsets[bs].filters, source, keys, 1)

(* mfd.modify(modification, parameters) *)
Modify(mfd, modification, a, b, value) ==
    IF modification = "set_ab"
    THEN [mfd EXCEPT !.a_val = a, !.b_val = b, !.modified = Append(@, modification)]
    ELSE IF modification = "increment_b"
    THEN [mfd EXCEPT !.b_val = @ + value, !.modified = Append(@, modification)]
    ELSE IF modification = "increment_max_mag"
    THEN [mfd EXCEPT !.max_mag = @ + value, !.modified = Append(@, modification)]
    ELSE [mfd EXCEPT !.max_mag = value, !.modified = Append(@, modification)]

(* _apply_uncertainty_to_mfd: the model after it, or the exception *)
ApplyUncertaintyToMfd(uncertainty_type, mfd, value) ==
    IF uncertainty_type = "abGRAbsolute"
    THEN [raised |-> "none", mfd |-> Modify(mfd, "set_ab", value.a, value.b, 0)]
    ELSE IF uncertainty_type = "bGRRelative"
    THEN [raised |-> "none", mfd |-> Modify(mfd, "increment_b", 0, 0, value)]
    ELSE IF uncertainty_type = "maxMagGRRelative"
    THEN [raised |-> "none", mfd |-> Modify(mfd, "increment_max_mag", 0, 0, value)]
    ELSE IF uncertainty_type = "maxMagGRAbsolute"
    THEN [raised |-> "none", mfd |-> Modify(mfd, "set_max_mag", 0, 0, value)]
    ELSE [raised |-> "AssertionError", mfd |-> mfd]

(* apply_uncertainty, had it not looked at the family of the model *)
IsGutenbergRichterUnchecked(mfd) == TRUE

(* isinstance(source.mfd, openquake.hazardlib.mfd.TruncatedGRMFD) *)
IsGutenbergRichter(mfd) == mfd.family = "TruncatedGRMFD"

(* apply_uncertainty: the source after it, and the exception if one left it *)
ApplyUncertainty(bs, value, source, keys) ==
    LET passes == FilterSource(bs, source, keys)
    IN  IF passes = "AssertionError" THEN [raised |-> "AssertionError", source |-> source]
        ELSE IF passes = "False" THEN [raised |-> "none", source |-> source]
        ELSE IF ~IsGutenbergRichter(source.mfd) THEN [raised |-> "none", source |-> source]
        ELSE LET applied == ApplyUncertaintyToMfd(branchsets[bs].uncertainty_type,
                                                  source.mfd, value)
             IN  [raised |-> applied.raised,
                  source |-> [source EXCEPT !.mfd = applied.mfd]]

CallApplyUncertainty(bs, b, source, keys) ==
    /\ bs \in DOMAIN branchsets
    /\ b \in DOMAIN branchsets[bs].branches
    /\ keys \in KeyOrders(branchsets[bs].filters)
    /\ LET value == branches[branchsets[bs].branches[b]].value
       IN  Call("apply_uncertainty",
                [branchset |-> bs, value |-> value, source |-> source, keys |-> keys],
                ApplyUncertainty(bs, value, source, keys))

(* the branchset nodes of the documents explored here: every uncertainty
   type, with no filter, one filter or two *)
ApplyAttribs ==
    {NoFilters,
     Filter("applyToTectonicRegionType", "T1"),
     Filter("applyToSourceType", "point"),
     Filter("applyToSourceType", "area"),
     Filter("applyToSourceType", "volcano"),
     Filter("applyToSources", <<"s1">>),
     Filter("applyToSources", <<"s1">>) @@ Filter("applyToTectonicRegionType", "T1"),
     Filter("applyToSourceType", "volcano") @@ Filter("applyToTectonicRegionType", "T2")}

ApplyNodes ==
    {BranchSetNode(uncertainty_type, attrib) :
        uncertainty_type \in UncertaintyTypes, attrib \in ApplyAttribs}

ApplyWeights == {One}

InitApply ==
    /\ Init
    /\ kind = "SM"

NextApply ==
    \/ \E h \in ApplyNodes : Len(branchsets) < MaxApplyNodes /\ ParseBranchset(h)
    \/ \E b \in 1..(Len(branches) + 1), w \in ApplyWeights : ParseBranch(b, w)
    \/ EndParseBranches
    \/ ApplyBranchset(<<>>)
    \/ EndBranchingLevel
    \/ ParseTreeEnd(0, 0)
    \/ \E bs \in 1..MaxApplyNodes, b \in 1..MaxBranches, source \in HazardlibSources,
          keys \in UNION {KeyOrders(attrib) : attrib \in ApplyAttribs} :
          CallApplyUncertainty(bs, b, source, keys)

SpecApply == InitApply /\ [][NextApply]_vars

-----------------------------------------------------------------------------
(* GsimLogicTree.  branchSetID and branchID strings are numbered in their
   string order; the ids of one document are distinct (they are xs:ID). *)

MaxGsimLevels == 2     \* branching levels per document
MaxGsimBranches == 3   \* branches per branchset node
MaxGsimTuples == 4     \* BranchTuples per document

GsimWeights == {3, 4, One}

InvalidLogicTree(msg) == [kind |-> "InvalidLogicTree", msg |-> msg, arg |-> {}]
AssertionError(msg) == [kind |-> "AssertionError", msg |-> msg, arg |-> {}]

GsimBranchSetNode(branchSetID, uncertainty_type, attrib) ==
    [branchSetID |-> branchSetID, uncertaintyType |-> uncertainty_type, attrib |-> attrib]

(* the branchset nodes a document can continue with *)
GsimNodes ==
    {GsimBranchSetNode(id, "gmpeModel", attrib) :
        id \in 1..MaxGsimLevels \ {logicTree[i].bset.branchSetID : i \in 1..Len(logicTree)},
        attrib \in {NoFilters} \cup {Filter("applyToTectonicRegionType", trt) :
                                        trt \in TectonicRegionTypes}}
       \cup {GsimBranchSetNode(MaxGsimLevels, "bGRRelative",
                               Filter("applyToTectonicRegionType", "T1"))}

BranchTuple(bset, id, uncertainty, weight) ==
    [bset |-> bset, id |-> id, uncertainty |-> uncertainty, weight |-> weight]

(* BranchTuple.__lt__ *)
BranchTupleLt(self, other) ==
    /\ self.bset.branchSetID < other.bset.branchSetID
    /\ self.id < other.id

(* sorted() of a list shorter than 64: the leading run is counted (and
   reversed if strictly descending), the rest is inserted by binary search;
   only __lt__ is called. *)
RECURSIVE AscendingRun(_, _)
AscendingRun(s, n) ==
    IF n < Len(s) /\ ~BranchTupleLt(s[n + 1], s[n]) THEN AscendingRun(s, n + 1) ELSE n

RECURSIVE DescendingRun(_, _)
DescendingRun(s, n) ==
    IF n < Len(s) /\ BranchTupleLt(s[n + 1], s[n]) THEN DescendingRun(s, n + 1) ELSE n

Reversed(s, n) == [i \in 1..Len(s) |-> IF i <= n THEN s[n + 1 - i] ELSE s[i]]

RECURSIVE InsertionPoint(_, _, _, _)
InsertionPoint(s, pivot, l, r) ==
    IF l >= r THEN l
    ELSE LET p == l + ((r - l) \div 2)
         IN  IF BranchTupleLt(pivot, s[p]) THEN InsertionPoint(s, pivot, l, p)
             ELSE InsertionPoint(s, pivot, p + 1, r)

RECURSIVE BinarySort(_, _)
BinarySort(s, start) ==
    IF start > Len(s) THEN s
    ELSE LET l == InsertionPoint(s, s[start], 1, start)
         IN  BinarySort([i \in 1..Len(s) |->
                            IF i < l \/ i > start THEN s[i]
                            ELSE IF i = l THEN s[start]
                            ELSE s[i - 1]],
                        start + 1)

Sorted(s) ==
    IF Len(s) < 2 THEN s
    ELSE IF BranchTupleLt(s[2], s[1])
    THEN LET n == DescendingRun(s, 2) IN BinarySort(Reversed(s, n), n + 1)
    ELSE BinarySort(s, AscendingRun(s, 2) + 1)

(* itertools.groupby(branch_list, attrgetter('bset')): the maximal runs of
   consecutive tuples of one branchset *)
RECURSIVE GroupBy(_, _, _)
GroupBy(branch_list, i, groups) ==
    IF i > Len(branch_list) THEN groups
    ELSE IF i > 1 /\ branch_list[i].bset = branch_list[i - 1].bset
    THEN GroupBy(branch_list, i + 1,
                 [groups EXCEPT ![Len(groups)] = Append(@, branch_list[i])])
    ELSE GroupBy(branch_list, i + 1, Append(groups, <<branch_list[i]>>))

Groups == GroupBy(gsim_branches, 1, <<>>)

(* get_num_branches: the dictionary branchSetID -> size of the group, a
   later group of the same branchSetID replacing an earlier one *)
GroupId(g) == Groups[g][1].bset.branchSetID

LastGroupOf(id) ==
    CHOOSE g \in DOMAIN Groups :
        /\ GroupId(g) = id
        /\ \A h \in DOMAIN Groups : GroupId(h) = id => h <= g

GetNumBranches ==
    [id \in {GroupId(g) : g \in DOMAIN Groups} |-> Len(Groups[LastGroupOf(id)])]

RECURSIVE ProductOfValues(_, _)
ProductOfValues(num, ids) ==
    IF ids = {} THEN 1
    ELSE LET id == CHOOSE x \in ids : TRUE
         IN  num[id] * ProductOfValues(num, ids \ {id})

GetNumPaths == ProductOfValues(GetNumBranches, DOMAIN GetNumBranches)

(* itertools.product over the groups, from group g on, the last group varying fastest *)
RECURSIVE Product(_, _)
Product(groups, g) ==
    IF g > Len(groups) THEN << <<>> >>
    ELSE LET rest == Product(groups, g + 1)
         IN  [k \in 1..(Len(groups[g]) * Len(rest)) |->
                 <<groups[g][((k - 1) \div Len(rest)) + 1]>>
                    \o rest[((k - 1) % Len(rest)) + 1]]

GroupFilterKey(g) == Groups[g][1].bset.attrib["applyToTectonicRegionType"]

(* weight *= branch.weight over the first n chosen branches, from 1 *)
RECURSIVE ChosenWeight(_, _)
ChosenWeight(chosen, n) ==
    IF n = 0 THEN 1 ELSE ChosenWeight(chosen, n - 1) * chosen[n].weight

(* the realization __iter__ builds from one element of the product *)
GsimRealization(chosen) ==
    LtRealization(
        [fkey \in {GroupFilterKey(g) : g \in DOMAIN Groups} |->
            chosen[CHOOSE g \in DOMAIN Groups :
                      /\ GroupFilterKey(g) = fkey
                      /\ \A h \in DOMAIN Groups : GroupFilterKey(h) = fkey => h <= g
                  ].uncertainty],
        <<ChosenWeight(chosen, Len(chosen)), Power(One, Len(chosen))>>,
        [g \in DOMAIN chosen |-> chosen[g].id])

GsimRealizations ==
    LET product == Product(Groups, 1)
    IN  [k \in DOMAIN product |-> GsimRealization(product[k])]

TrtRank == [trt \in TectonicRegionTypes |-> IF trt = "T1" THEN 1 ELSE IF trt = "T2" THEN 2 ELSE 3]

(* sorted(filter_keys) of at most two keys *)
SortedKeys(keys) ==
    IF Len(keys) = 2 /\ TrtRank[keys[2]] < TrtRank[keys[1]] THEN <<keys[2], keys[1]>>
    ELSE keys

FilterKeyLists == {<<>>, <<"T1">>, <<"T2", "T1">>, <<"T1", "T1">>}

InKeys(fkey, keys) == \E i \in DOMAIN keys : keys[i] = fkey

GsimAbort(e) ==
    /\ gsim_pc' = "error"
    /\ gsim_err' = e

(* GsimLogicTree.__init__ up to the call of _parse_lt *)
GsimInit(keys) ==
    /\ gsim_pc = "new"
    /\ filter_keys' = SortedKeys(keys)
    /\ IF Cardinality({keys[i] : i \in DOMAIN keys}) < Len(keys)
       THEN GsimAbort([kind |-> "ValueError",
                       msg |-> "The given tectonic region types are not distinct",
                       arg |-> {}])
       ELSE gsim_pc' = "level" /\ UNCHANGED gsim_err
    /\ UNCHANGED <<logicTree, branchset, fkeys, weights, parsed, values, gsim_branches,
                   gsim_runs, num_paths>>
    /\ UNCHANGED <<argVars, treeVars, posVars, hookVars, err, runs, rnd, calls, splitVars>>

RecordedRetainedFkeys(bset) ==
    IF /\ "applyToTectonicRegionType" \in DOMAIN bset.attrib
       /\ InKeys(bset.attrib["applyToTectonicRegionType"], filter_keys)
    THEN Append(fkeys, bset.attrib["applyToTectonicRegionType"])
    ELSE fkeys

(* fkeys after a branchset: its filter value is appended if it has one *)
RecordedFkeys(bset) ==
    IF "applyToTectonicRegionType" \in DOMAIN bset.attrib
    THEN Append(fkeys, bset.attrib["applyToTectonicRegionType"])
    ELSE fkeys

(* _parse_lt, one branching level: `multiple` says whether the level holds
   more than one branchset, bset is its first branchset *)
ParseLtLevel(multiple, bset) ==
    /\ gsim_pc = "level"
    /\ Len(logicTree) < MaxGsimLevels
    /\ logicTree' = Append(logicTree, [multiple |-> multiple, bset |-> bset])
    /\ UNCHANGED <<filter_keys, parsed, values, gsim_branches, gsim_runs, num_paths>>
    /\ UNCHANGED <<argVars, treeVars, posVars, hookVars, err, runs, rnd, calls, splitVars>>
    /\ IF multiple
       THEN /\ GsimAbort(InvalidLogicTree("Branching level has multiple branchsets"))
            /\ UNCHANGED <<branchset, fkeys, weights>>
       ELSE IF bset.uncertaintyType # "gmpeModel"
       THEN /\ GsimAbort(InvalidLogicTree("only uncertainties of type gmpeModel are allowed in gmpe logic tree"))
            /\ UNCHANGED <<branchset, fkeys, weights>>
       ELSE /\ fkeys' = RecordedFkeys(bset)
            /\ branchset' = bset
            /\ weights' = <<>>
            /\ gsim_pc' = IF /\ "applyToTectonicRegionType" \in DOMAIN bset.attrib
                             /\ InKeys(bset.attrib["applyToTectonicRegionType"], filter_keys)
                          THEN "branch" ELSE "level"
            /\ UNCHANGED gsim_err

(* the uncertaintyModel text of the i-th branch of a branchset *)
GsimText(i) == IF i = 1 THEN "G1" ELSE IF i = 2 THEN "G2" ELSE "G3"

(* _parse_lt, one turn of the loop over the branches of a retained branchset *)
ParseLtBranch(branch_id, weight) ==
    /\ gsim_pc = "branch"
    /\ Len(weights) < MaxGsimBranches
    /\ Len(parsed) < MaxGsimTuples
    /\ \A i \in DOMAIN parsed : parsed[i].id # branch_id
    /\ weights' = Append(weights, weight)
    /\ values' = [values EXCEPT ![branchset.attrib["applyToTectonicRegionType"]] =
                     Append(@, GsimText(Len(weights) + 1))]
    /\ parsed' = Append(parsed, BranchTuple(branchset, branch_id,
                                            GsimText(Len(weights) + 1), weight))
    /\ UNCHANGED <<gsim_pc, filter_keys, logicTree, branchset, fkeys, gsim_branches,
                   gsim_err, gsim_runs, num_paths>>
    /\ UNCHANGED <<argVars, treeVars, posVars, hookVars, err, runs, rnd, calls, splitVars>>

RECURSIVE SumOf(_, _)
SumOf(numbers, n) == IF n = 0 THEN 0 ELSE SumOf(numbers, n - 1) + numbers[n]

(* _parse_lt after the loop over the branches: assert sum(weights) == 1 *)
ParseLtBranchesEnd ==
    /\ gsim_pc = "branch"
    /\ IF SumOf(weights, Len(weights)) # One
       THEN GsimAbort(AssertionError("weights"))
       ELSE gsim_pc' = "level" /\ UNCHANGED gsim_err
    /\ UNCHANGED <<filter_keys, logicTree, branchset, fkeys, weights, parsed, values,
                   gsim_branches, gsim_runs, num_paths>>
    /\ UNCHANGED <<argVars, treeVars, posVars, hookVars, err, runs, rnd, calls, splitVars>>

(* the end of _parse_lt and the rest of __init__ *)
ParseLtEnd ==
    /\ gsim_pc = "level"
    /\ IF Cardinality({fkeys[i] : i \in DOMAIN fkeys}) < Len(fkeys)
       THEN GsimAbort(InvalidLogicTree("Found duplicated applyToTectonicRegionType"))
               /\ UNCHANGED gsim_branches
       ELSE /\ gsim_branches' = Sorted(parsed)
            /\ IF filter_keys # <<>> /\ parsed = <<>>
               THEN GsimAbort(InvalidLogicTree("Could not find branches with attribute applyToTectonicRegionType"))
               ELSE gsim_pc' = "done" /\ UNCHANGED gsim_err
    /\ UNCHANGED <<filter_keys, logicTree, branchset, fkeys, weights, parsed, values,
                   gsim_runs, num_paths>>
    /\ UNCHANGED <<argVars, treeVars, posVars, hookVars, err, runs, rnd, calls, splitVars>>

(* GsimLogicTree.__iter__, consumed to its end *)
GsimIterate ==
    /\ gsim_pc = "done"
    /\ gsim_runs = <<>>
    /\ gsim_runs' = <<GsimRealizations>>
    /\ UNCHANGED <<gsim_pc, filter_keys, logicTree, branchset, fkeys, weights, parsed,
                   values, gsim_branches, gsim_err, num_paths>>
    /\ UNCHANGED <<argVars, treeVars, posVars, hookVars, err, runs, rnd, calls, splitVars>>

(* a call of get_num_paths *)
CallGetNumPaths ==
    /\ gsim_pc = "done"
    /\ num_paths = <<>>
    /\ num_paths' = <<GetNumPaths>>
    /\ UNCHANGED <<gsim_pc, filter_keys, logicTree, branchset, fkeys, weights, parsed,
                   values, gsim_branches, gsim_err, gsim_runs>>
    /\ UNCHANGED <<argVars, treeVars, posVars, hookVars, err, runs, rnd, calls, splitVars>>

InitGsim ==
    /\ NewLogicTree
    /\ NoSequenceSplitter
    /\ kind = "GMPE"
    /\ validate = FALSE
    /\ gsim_pc = "new"
    /\ filter_keys = <<>>
    /\ logicTree = <<>>
    /\ branchset = NoBranchset
    /\ fkeys = <<>>
    /\ weights = <<>>
    /\ parsed = <<>>
    /\ values = [fkey \in TectonicRegionTypes |-> <<>>]
    /\ gsim_branches = <<>>
    /\ gsim_err = NoError
    /\ gsim_runs = <<>>
    /\ num_paths = <<>>

NextGsim ==
    \/ \E keys \in FilterKeyLists : GsimInit(keys)
    \/ \E multiple \in BOOLEAN, bset \in GsimNodes : ParseLtLevel(multiple, bset)
    \/ \E branch_id \in 1..MaxGsimTuples, weight \in GsimWeights :
          ParseLtBranch(branch_id, weight)
    \/ ParseLtBranchesEnd
    \/ ParseLtEnd
    \/ GsimIterate
    \/ CallGetNumPaths

SpecGsim == InitGsim /\ [][NextGsim]_vars

-----------------------------------------------------------------------------
(* general.SequenceSplitter *)

MaxNumBlocks == 2
MaxBlockSize == 2
MaxSequenceLen == 3
MaxItemWeight == 2

(* general.ceil on non-negative integers: int(math.ceil(float(a) / b)) *)
Ceil(a, b) == (a + b - 1) \div b

RECURSIVE TotalWeight(_)
TotalWeight(item_weights) ==
    IF item_weights = <<>> THEN 0
    ELSE Head(item_weights) + TotalWeight(Tail(item_weights))

(* the sequences of item weights given to split_on_max_weight *)
ItemWeightSequences ==
    UNION {[1..n -> 0..MaxItemWeight] : n \in 0..MaxSequenceLen}

(* WeightedSequence.append((item, weight)) *)
WsAppend(w, item, weight) ==
    [_seq |-> Append(w._seq, item), weight |-> w.weight + weight]

SplitUnchanged == UNCHANGED <<argVars, treeVars, posVars, hookVars, err, runs, rnd,
                              calls, gsimVars>>

(* SequenceSplitter.__init__ *)
NewSequenceSplitter(nb, size) ==
    /\ split_pc = "new"
    /\ IF nb > 0 /\ (size = NoneInt \/ size >= 1)
       THEN /\ split_pc' = "created"
            /\ num_blocks' = nb
            /\ max_block_size' = size
       ELSE /\ split_pc' = "error"
            /\ UNCHANGED <<num_blocks, max_block_size>>
    /\ UNCHANGED <<max_weight, sequence, ws, blocks>>
    /\ SplitUnchanged

(* _split_on_max_weight up to its loop *)
StartSplitOnMaxWeight(item_weights) ==
    /\ split_pc = "created"
    /\ split_pc' = "loop"
    /\ max_weight' = Ceil(TotalWeight(item_weights), num_blocks)
    /\ sequence' = item_weights
    /\ ws' = NewWeightedSequence
    /\ blocks' = <<>>
    /\ UNCHANGED <<num_blocks, max_block_size>>
    /\ SplitUnchanged

(* SequenceSplitter.split: every item has weight 1 *)
Split(n) == StartSplitOnMaxWeight([i \in 1..n |-> 1])

(* SequenceSplitter.split_on_max_weight *)
SplitOnMaxWeight(item_weights) == StartSplitOnMaxWeight(item_weights)

(* ws_long = self.max_block_size and len(ws) > self.max_block_size *)
WsLong == max_block_size # NoneInt /\ Len(ws._seq) > max_block_size

(* one turn of the loop of _split_on_max_weight *)
SplitItem ==
    /\ split_pc = "loop"
    /\ sequence # <<>>
    /\ LET weight == Head(sequence)
           item == Len(ws._seq) + TotalWeight([b \in DOMAIN blocks |-> Len(blocks[b]._seq)]) + 1
       IN  IF weight <= 0
           THEN UNCHANGED <<ws, blocks>>
           ELSE IF ws.weight + weight > max_weight \/ WsLong
                THEN /\ ws' = WsAppend(NewWeightedSequence, item, weight)
                     /\ blocks' = IF ws._seq # <<>> THEN Append(blocks, ws) ELSE blocks
                ELSE /\ ws' = WsAppend(ws, item, weight)
                     /\ UNCHANGED blocks
    /\ sequence' = Tail(sequence)
    /\ UNCHANGED <<split_pc, num_blocks, max_block_size, max_weight>>
    /\ SplitUnchanged

(* the end of _split_on_max_weight: the last block *)
SplitEnd ==
    /\ split_pc = "loop"
    /\ sequence = <<>>
    /\ split_pc' = "done"
    /\ blocks' = IF ws._seq # <<>> THEN Append(blocks, ws) ELSE blocks
    /\ UNCHANGED <<num_blocks, max_block_size, max_weight, sequence, ws>>
    /\ SplitUnchanged

InitSplit ==
    /\ NewLogicTree
    /\ kind = "SM"
    /\ validate
    /\ NoGsimLogicTree
    /\ split_pc = "new"
    /\ num_blocks = 1
    /\ max_block_size = NoneInt
    /\ max_weight = NoneInt
    /\ sequence = <<>>
    /\ ws = NewWeightedSequence
    /\ blocks = <<>>

NextSplit ==
    \/ \E nb \in 0..MaxNumBlocks, size \in {NoneInt} \cup 0..MaxBlockSize :
          NewSequenceSplitter(nb, size)
    \/ \E n \in 0..MaxSequenceLen : Split(n)
    \/ \E item_weights \in ItemWeightSequences : SplitOnMaxWeight(item_weights)
    \/ SplitItem
    \/ SplitEnd

SpecSplit == InitSplit /\ [][NextSplit]_vars

-----------------------------------------------------------------------------
(* Properties *)

(* the branchsets whose branches parse_branches has checked *)
ParsedBranchsets ==
    IF pc = "branches" THEN 1..(Len(branchsets) - 1) ELSE 1..Len(branchsets)

BranchWeights(bs) ==
    CumulativeWeight(branchsets[bs].branches, Len(branchsets[bs].branches))

Constructed == pc = "done"

(* C1: the weights of the branches of every parsed branchset sum to exactly
   1, with validate on or off, and a node whose parse_branches loop ends on
   another sum, or on no branch at all, aborts with ValidationError. *)
C1_BranchsetWeightsSumToOne ==
    /\ [](\A bs \in ParsedBranchsets :
            /\ BranchWeights(bs) = One
            /\ Len(branchsets[bs].branches) >= 1)
    /\ [][(/\ pc = "branches"
           /\ pc' # "branches"
           /\ \/ weight_sum # One
              \/ branchsets[cur].branches = <<>>)
          => (pc' = "error" /\ err'.kind = "ValidationError")]_vars

C1_Witness ==
    /\ Constructed
    /\ ~validate
    /\ \E bs \in 1..Len(branchsets) : Len(branchsets[bs].branches) = 2

(* the places (branchset, position) of the parsed branches *)
BranchPlaces ==
    {<<bs, i>> : bs \in 1..Len(branchsets), i \in 1..MaxTreeBranches}
        \cap {p \in (1..MaxNodes) \X (1..MaxTreeBranches) :
                 /\ p[1] <= Len(branchsets)
                 /\ p[2] <= Len(branchsets[p[1]].branches)}

(* C2: no two parsed branches of a tree share a branch id, the index holds
   exactly one entry per parsed branch, and the error that reports a
   duplicate is a ValidationError naming an id already in the index. *)
C2_BranchIdsUnique ==
    /\ [](/\ \A p, q \in BranchPlaces :
                p # q => branchsets[p[1]].branches[p[2]]
                            # branchsets[q[1]].branches[q[2]]
          /\ Cardinality(BranchPlaces) = Len(branches)
          /\ DOMAIN branches
                = {branchsets[p[1]].branches[p[2]] : p \in BranchPlaces})
    /\ [][err'.msg = "branchID is not unique"
          => /\ pc = "branches"
             /\ pc' = "error"
             /\ err'.kind = "ValidationError"
             /\ \E b \in DOMAIN branches : err'.arg = {ToString(b)}]_vars

C2_Witness ==
    /\ Constructed
    /\ Len(branchsets) = 3
    /\ Len(branches) = 4

(* the sum of exact weights, over the common denominator One^MaxLevels *)
RECURSIVE SumOfWeights(_, _)
SumOfWeights(realizations, n) ==
    IF n = 0 THEN 0
    ELSE SumOfWeights(realizations, n - 1)
            + realizations[n].weight[1]
                * (Power(One, MaxLevels) \div realizations[n].weight[2])

HasBranchset == root_branchset # 0

(* the branches of the tree's branchsets that kept no child: leaves *)
IsLeaf(b) == branches[b].child_branchset = 0

(* C3: for every constructed tree with at least one branchset, the weights
   of the paths enumerate_paths yields from root_branchset sum to exactly 1,
   also when applyToBranches left some branches of a level as leaves. *)
C3_PathWeightsSumToOne ==
    /\ (Constructed /\ HasBranchset)
          => SumOfWeights(EnumerationRealizations, Len(EnumerationRealizations))
                = Power(One, MaxLevels)
    /\ \A r \in 1..Len(runs) :
          num_samples = 0
             => SumOfWeights(runs[r], Len(runs[r])) = Power(One, MaxLevels)

C3_Witness ==
    /\ Constructed
    /\ num_samples = 0
    /\ Len(runs) >= 1
    /\ Len(branchsets[root_branchset].branches) = 2
    /\ \E b, c \in BranchSetOf(root_branchset) : IsLeaf(b) /\ ~IsLeaf(c)

(* the lt_path of every realization an iteration yielded, and of every
   path enumeration yields from the constructed tree *)
AllYieldedPaths ==
    UNION {{runs[r][k].lt_path : k \in 1..Len(runs[r])} : r \in 1..Len(runs)}
    \cup (IF Constructed /\ HasBranchset
          THEN {EnumerationRealizations[k].lt_path :
                    k \in 1..Len(EnumerationRealizations)}
          ELSE {})

(* the number of branching levels of the document: parse_tree's loop has
   consumed them all when the constructor returns *)
BranchingLevels == depth

(* C4 as stated: every enumerated or sampled path has as many branches as
   the document has branching levels. *)
C4_PathLengthIsDepth ==
    \A path \in AllYieldedPaths : Len(path) = BranchingLevels

EveryLevelHasBranchset ==
    \A d \in 0..(BranchingLevels - 1) :
        \E bs \in 1..Len(branchsets) : branchsets[bs].level = d

NoLeafBelowLastLevel ==
    \A bs \in 1..Len(branchsets) :
        branchsets[bs].level < BranchingLevels - 1
            => \A b \in BranchSetOf(bs) : ~IsLeaf(b)

(* C4 amended: every enumerated or sampled path has at least one branch and
   at most as many as the document has branching levels; it has exactly as
   many when every level has a parsed branchset and every branch below the
   last level has a child branchset. *)
C4_PathLengthAtMostDepth ==
    \A path \in AllYieldedPaths :
        /\ 1 <= Len(path)
        /\ Len(path) <= BranchingLevels
        /\ (EveryLevelHasBranchset /\ NoLeafBelowLastLevel)
              => Len(path) = BranchingLevels

C4_Witness ==
    /\ Constructed
    /\ BranchingLevels = 3
    /\ EveryLevelHasBranchset
    /\ NoLeafBelowLastLevel
    /\ num_samples # 0
    /\ Len(runs) >= 1
    /\ \E path \in AllYieldedPaths : Len(path) = 3

(* the branch-id paths of the realizations of one iteration *)
PathsOf(realizations) ==
    [k \in 1..Len(realizations) |-> realizations[k].lt_path]

(* C5: iterations in sampling mode with the same seed and the same
   num_samples yield the same sequence of branch-id paths. *)
C5_SamplingIsReproducible ==
    num_samples # 0
       => \A r1, r2 \in 1..Len(runs) : PathsOf(runs[r1]) = PathsOf(runs[r2])

C5_Witness ==
    /\ Len(runs) = 2
    /\ num_samples = 2
    /\ Len(runs[1]) = 2
    /\ runs[1][1].lt_path # runs[1][2].lt_path
    /\ runs[2][1].lt_path # runs[2][2].lt_path

(* a tree of two levels whose second level is one branchset attached to
   every branch of the first *)
TwoLevelTree ==
    /\ Constructed
    /\ Len(branchsets) = 2
    /\ root_branchset = 1
    /\ branchsets[1].level = 0
    /\ branchsets[2].level = 1
    /\ \A b \in BranchSetOf(1) : branches[b].child_branchset = 2

(* the k-th (level-1 branch, level-2 branch) pair in depth-first declared order *)
PairFirst(k) == branchsets[1].branches[((k - 1) \div Len(branchsets[2].branches)) + 1]
PairSecond(k) == branchsets[2].branches[((k - 1) % Len(branchsets[2].branches)) + 1]

WeightsOf(bs) ==
    [i \in 1..Len(branchsets[bs].branches) |-> branches[branchsets[bs].branches[i]].weight]

(* C7: in a two-level tree whose level-2 branchset is attached to every
   level-1 branch, enumeration yields one path per (level-1, level-2) pair,
   in depth-first declared order, weighted by the exact product of the two
   weights; weights 0.3, 0.7 and 0.4, 0.6 give 0.12, 0.18, 0.28, 0.42. *)
C7_TwoLevelEnumeration ==
    TwoLevelTree
       => /\ Len(EnumerationRealizations)
                = Len(branchsets[1].branches) * Len(branchsets[2].branches)
          /\ \A k \in 1..Len(EnumerationRealizations) :
                /\ EnumerationRealizations[k].lt_path = <<PairFirst(k), PairSecond(k)>>
                /\ EnumerationRealizations[k].weight
                      = <<branches[PairFirst(k)].weight * branches[PairSecond(k)].weight,
                          One * One>>
          /\ (WeightsOf(1) = <<3, 7>> /\ WeightsOf(2) = <<4, 6>>)
                => [k \in 1..4 |-> EnumerationRealizations[k].weight]
                      = <<<<12, 100>>, <<18, 100>>, <<28, 100>>, <<42, 100>>>>
          /\ \A r \in 1..Len(runs) :
                num_samples = 0 => runs[r] = EnumerationRealizations

C7_Witness ==
    /\ TwoLevelTree
    /\ WeightsOf(1) = <<3, 7>>
    /\ WeightsOf(2) = <<4, 6>>
    /\ Len(runs) >= 1
    /\ num_samples = 0
    /\ [k \in 1..4 |-> runs[1][k].lt_path] = <<<<1, 3>>, <<1, 4>>, <<2, 3>>, <<2, 4>>>>

(* the region type a GMPE branchset declares *)
TrtOf(bs) == branchsets[bs].filters["applyToTectonicRegionType"]

BranchsetsOfTrt(trt) == {bs \in 1..Len(branchsets) : TrtOf(bs) = trt}

(* C10: with validation on, a GMPE tree is constructed only if every known
   tectonic region type is covered by exactly one branchset: the whole-tree
   validation raises a ValidationError listing the types that are missing, a
   type declared a second time raises a ValidationError, and after success
   the defined types are the known types. *)
C10_GMPECoverage ==
    /\ []((kind = "GMPE" /\ validate)
            => /\ \A trt \in tectonic_region_types :
                     Cardinality(BranchsetsOfTrt(trt)) <= 1
               /\ Constructed
                     => /\ defined_tectonic_region_types = tectonic_region_types
                        /\ \A trt \in tectonic_region_types :
                              Cardinality(BranchsetsOfTrt(trt)) = 1)
    /\ [][(kind = "GMPE" /\ validate /\ pc = "branchset" /\ pc' = "done")
          => MissingTrts = {}]_vars
    /\ [][(kind = "GMPE" /\ validate /\ err' # err
              /\ err'.msg = "tectonic region types defined in source model logic tree but not in gmpe logic tree")
          => /\ err'.kind = "ValidationError"
             /\ err'.arg = MissingTrts
             /\ MissingTrts # {}]_vars
    /\ [][(kind = "GMPE" /\ validate /\ pc = "branchset" /\ pc' \in {"branches", "error"}
              /\ err'.msg # "tectonic region types defined in source model logic tree but not in gmpe logic tree"
              /\ "applyToTectonicRegionType" \in DOMAIN node'.attrib
              /\ node'.attrib["applyToTectonicRegionType"] \in defined_tectonic_region_types)
          => (pc' = "error" /\ err'.kind = "ValidationError")]_vars

C10_Witness ==
    /\ Constructed
    /\ kind = "GMPE"
    /\ validate
    /\ BranchingLevels = 3
    /\ Len(branchsets) = 2

(* a step of parse_branchset over the node it leaves in `node`: the
   branchset is accepted, or construction fails *)
ParseBranchsetStep ==
    /\ pc = "branchset"
    /\ pc' \in {"branches", "error"}

AbsoluteBranchsets ==
    {bs \in 1..Len(branchsets) : branchsets[bs].uncertainty_type \in AbsoluteUncertainties}

(* C8: with validation on, a source-model branchset of type abGRAbsolute or
   maxMagGRAbsolute is accepted only if its one filter is applyToSources with
   exactly one source id; two filters, no filter, another filter or several
   ids fail with ValidationError (two filters: "only one filter is allowed"). *)
C8_AbsoluteNeedsOneSource ==
    /\ []((kind = "SM" /\ validate)
            => \A bs \in AbsoluteBranchsets :
                  /\ DOMAIN branchsets[bs].filters = {"applyToSources"}
                  /\ Len(branchsets[bs].filters["applyToSources"]) = 1)
    /\ [][(kind = "SM" /\ validate /\ ParseBranchsetStep
              /\ node'.uncertaintyType \in AbsoluteUncertainties
              /\ ~(/\ DOMAIN node'.attrib = {"applyToSources"}
                   /\ Len(node'.attrib["applyToSources"]) = 1))
          => /\ pc' = "error"
             /\ err'.kind = "ValidationError"
             /\ Cardinality(DOMAIN node'.attrib) > 1
                   => err'.msg = "only one filter is allowed per branchset"]_vars

C8_Witness ==
    /\ kind = "SM"
    /\ validate
    /\ pc = "error"
    /\ node.uncertaintyType = "abGRAbsolute"
    /\ DOMAIN node.attrib = {"applyToSources", "applyToTectonicRegionType"}
    /\ node.attrib["applyToSources"] = <<"s1">>
    /\ source_ids = {"s1", "s2"}
    /\ err.msg = "only one filter is allowed per branchset"

(* the sources of the models the first level's sourceModel branches name *)
ScannedSources ==
    IF root_branchset = 0 THEN {}
    ELSE UNION {SourceModel(branches[b].value) : b \in BranchSetOf(root_branchset)}

ListedIds(attrib) ==
    IF "applyToSources" \in DOMAIN attrib
    THEN {attrib["applyToSources"][i] : i \in 1..Len(attrib["applyToSources"])}
    ELSE {}

(* the filter values of a node that no scanned source model recorded *)
UnrecordedValues(attrib) ==
    (ListedIds(attrib) \ source_ids)
       \cup (IF "applyToSourceType" \in DOMAIN attrib
             THEN {attrib["applyToSourceType"]} \ source_types ELSE {})
       \cup (IF "applyToTectonicRegionType" \in DOMAIN attrib
             THEN {attrib["applyToTectonicRegionType"]} \ tectonic_region_types ELSE {})

(* C9: with validation on, a source-model branchset's filter values (each
   applyToSources id, the source type, the tectonic region type) are accepted
   only if recorded while scanning the source models of the first level's
   sourceModel branches; a source id absent from them fails with a
   ValidationError whose message names that id. *)
C9_FilterValuesWereScanned ==
    /\ []((kind = "SM" /\ validate /\ pc \notin {"branches", "error"} /\ root_branchset # 0)
            => /\ source_ids = {s.id : s \in ScannedSources}
               /\ source_types = {s.type : s \in ScannedSources}
               /\ tectonic_region_types = {s.trt : s \in ScannedSources})
    /\ [][(kind = "SM" /\ validate /\ ParseBranchsetStep /\ UnrecordedValues(node'.attrib) # {})
          => (pc' = "error" /\ err'.kind = "ValidationError")]_vars
    /\ [][(kind = "SM" /\ validate /\ ParseBranchsetStep
              /\ node'.uncertaintyType # "sourceModel"
              /\ DOMAIN node'.attrib = {"applyToSources"}
              /\ ListedIds(node'.attrib) \ source_ids # {})
          => /\ err'.msg = "source with id is not defined in source models"
             /\ err'.arg \subseteq ListedIds(node'.attrib) \ source_ids
             /\ Cardinality(err'.arg) = 1
             /\ err'.arg = {FirstUndefinedSource(node'.attrib["applyToSources"])}]_vars

C9_Witness ==
    /\ kind = "SM"
    /\ validate
    /\ pc = "error"
    /\ node.uncertaintyType = "bGRRelative"
    /\ node.attrib = Filter("applyToSources", <<"s1", "s9">>)
    /\ source_ids = {"s1", "s2"}
    /\ err = ValidationError("source with id is not defined in source models", {"s9"})

GsimConstructed == gsim_pc = "done"

(* C6: for a GsimLogicTree that constructed, a full iteration yields as many
   realizations as get_num_paths() returns, the product of the branch counts
   of get_num_branches(). *)
C6_IterationCountIsNumPaths ==
    GsimConstructed
       => /\ Len(GsimRealizations) = GetNumPaths
          /\ \A r \in DOMAIN gsim_runs, n \in DOMAIN num_paths :
                Len(gsim_runs[r]) = num_paths[n]

(* the branch of a path that belongs to the branchset of a region type *)
PathBranchesOfTrt(branch_ids, trt) ==
    {branch_ids[i] : i \in {j \in DOMAIN branch_ids :
        \E bs \in BranchsetsOfTrt(trt) : HasBranch(bs, branch_ids[j])}}

(* C11: for a GMPELogicTree built with validation on, make_trt_to_gsim of any
   path the tree yields returns a mapping whose keys are exactly the known
   tectonic region types, each mapped to the value of the path's branch in
   that type's branchset, also when branchsets of unknown types were skipped
   at any level. *)
C11_TrtToGsimCoversKnownTypes ==
    (Constructed /\ kind = "GMPE" /\ validate)
       => /\ \A branch_ids \in TreePaths :
                /\ MakeTrtToGsim(branch_ids).raised = "none"
                /\ DOMAIN MakeTrtToGsim(branch_ids).value = tectonic_region_types
                /\ \A trt \in tectonic_region_types :
                      \E b \in PathBranchesOfTrt(branch_ids, trt) :
                         MakeTrtToGsim(branch_ids).value[trt] = branches[b].value
          /\ \A c \in DOMAIN calls :
                calls[c].method = "make_trt_to_gsim"
                   => DOMAIN calls[c].returned.value = tectonic_region_types

(* the root-to-leaf paths of the tree: from a branch of the root branchset,
   along child links, to a branch that has no child branchset *)
RootToLeafPaths ==
    IF root_branchset = 0 THEN {}
    ELSE UNION {{path \in [1..n -> DOMAIN branches] :
                    /\ HasBranch(root_branchset, path[1])
                    /\ \A i \in 1..(n - 1) :
                          /\ branches[path[i]].child_branchset # 0
                          /\ HasBranch(branches[path[i]].child_branchset, path[i + 1])
                    /\ branches[path[n]].child_branchset = 0} :
                n \in 1..Len(branchsets)}

(* C12: an iteration with num_samples = N > 0 yields exactly N realizations,
   each of weight None; with num_samples = 0 it yields exactly one realization
   per root-to-leaf path, each carrying the weight of its path, never None. *)
C12_RealizationCountAndWeights ==
    \A r \in DOMAIN runs :
        IF num_samples # 0
        THEN /\ Len(runs[r]) = num_samples
             /\ \A k \in DOMAIN runs[r] : runs[r][k].weight = None
        ELSE /\ {runs[r][k].lt_path : k \in DOMAIN runs[r]} = RootToLeafPaths
             /\ Len(runs[r]) = Cardinality(RootToLeafPaths)
             /\ \A k \in DOMAIN runs[r] :
                   /\ runs[r][k].weight # None
                   /\ runs[r][k].weight = PathWeight(runs[r][k].lt_path)

C12_Witness ==
    /\ Len(runs) = 1
    /\ num_samples = MaxSamples
    /\ Len(runs[1]) = MaxSamples
    /\ Len(branchsets) = 3
    /\ \A k \in DOMAIN runs[1] : runs[1][k].weight = None /\ Len(runs[1][k].lt_path) = 3

(* C13: iterating a constructed tree and calling sample_path,
   make_apply_uncertainties or make_trt_to_gsim change nothing in the tree
   (branches index, every branch's weight, value and child_branchset,
   root_branchset, open_ends), so successive iterations yield the same
   sequence of realizations. *)
C13_IterationAndCallsReadOnly ==
    /\ [][Constructed
             => UNCHANGED <<branches, branchsets, root_branchset, open_ends>>]_vars
    /\ [](\A r1, r2 \in DOMAIN runs : runs[r1] = runs[r2])
    /\ [](\A r \in DOMAIN runs :
             (Constructed /\ err = NoError /\ num_samples = 0)
                => runs[r] = EnumerationRealizations)

C13_Witness ==
    /\ Len(runs) = 2
    /\ Len(calls) = 1
    /\ calls[1].method = "make_apply_uncertainties"
    /\ Len(calls[1].args) = 3
    /\ Len(runs[1]) = 2
    /\ runs[1] = runs[2]

(* the defects of the part of the document _parse_lt has read *)
LevelHasMultipleBranchsets == \E l \in DOMAIN logicTree : logicTree[l].multiple

BranchsetIsNotGmpeModel ==
    \E l \in DOMAIN logicTree : logicTree[l].bset.uncertaintyType # "gmpeModel"

FilterValueOf(l) == logicTree[l].bset.attrib["applyToTectonicRegionType"]

FilterValueDeclaredTwice ==
    \E l1, l2 \in DOMAIN logicTree :
        /\ l1 < l2
        /\ "applyToTectonicRegionType" \in DOMAIN logicTree[l1].bset.attrib
        /\ "applyToTectonicRegionType" \in DOMAIN logicTree[l2].bset.attrib
        /\ FilterValueOf(l1) = FilterValueOf(l2)

DocumentDefect ==
    LevelHasMultipleBranchsets \/ BranchsetIsNotGmpeModel \/ FilterValueDeclaredTwice

NoBranchSurvives == filter_keys # <<>> /\ parsed = <<>>

GsimEnded == gsim_pc \in {"done", "error"} /\ gsim_err.kind # "ValueError"

(* C14 as stated: construction raises InvalidLogicTree when a level has more
   than one branchset, a branchset is not of type gmpeModel, a filter value is
   declared twice, or filter_keys is non-empty and no branch survives; the
   first three whatever the branchset's filter value. *)
C14_DefectsRaiseInvalidLogicTree ==
    /\ (GsimEnded /\ DocumentDefect) => gsim_err.kind = "InvalidLogicTree"
    /\ GsimConstructed => ~NoBranchSurvives

(* C14, amended: the same, except that a retained branchset whose weights do
   not sum to 1 raises AssertionError as soon as it is read, before a defect
   that lies later in the document or a duplicated filter value is reported. *)
C14_DefectsRaiseUnlessAssertion ==
    /\ (GsimEnded /\ DocumentDefect)
          => \/ gsim_err.kind = "InvalidLogicTree"
             \/ /\ gsim_err.kind = "AssertionError"
                /\ SumOf(weights, Len(weights)) # One
                /\ InKeys(branchset.attrib["applyToTectonicRegionType"], filter_keys)
    /\ GsimConstructed => ~NoBranchSurvives
    /\ (gsim_pc = "error" /\ gsim_err.kind = "InvalidLogicTree")
          => DocumentDefect \/ NoBranchSurvives

C14_Witness ==
    /\ gsim_pc = "error"
    /\ gsim_err = InvalidLogicTree("Found duplicated applyToTectonicRegionType")
    /\ filter_keys = <<"T1">>
    /\ fkeys = <<"T3", "T3">>

(* the retained branchsets' branches as the document lists them: one group
   per retained branchset, in order of first appearance *)
DocumentGroups == GroupBy(parsed, 1, <<>>)

RECURSIVE ProductOfSizes(_, _)
ProductOfSizes(groups, n) ==
    IF n = 0 THEN 1 ELSE ProductOfSizes(groups, n - 1) * Len(groups[n])

RECURSIVE SumOfNumerators(_, _)
SumOfNumerators(realizations, n) ==
    IF n = 0 THEN 0
    ELSE SumOfNumerators(realizations, n - 1) + realizations[n].weight[1]

WeightOfId(branch_id) ==
    (CHOOSE t \in {parsed[i] : i \in DOMAIN parsed} : t.id = branch_id).weight

RECURSIVE ProductOfPathWeights(_, _)
ProductOfPathWeights(lt_path, n) ==
    IF n = 0 THEN 1 ELSE ProductOfPathWeights(lt_path, n - 1) * WeightOfId(lt_path[n])

(* C15: iteration of a GsimLogicTree yields exactly one realization per
   element of the cartesian product of the branch groups, one group per
   retained branchset holding all and only its branches, the groups in order
   of first appearance in the document; each lt_path has one branch id per
   group, each weight is the product of the chosen branches' weights, and the
   weights of all realizations sum to exactly 1. *)
C15_IterationIsProductOfGroups ==
    GsimConstructed
       => /\ Len(Groups) = Len(DocumentGroups)
          /\ \A g \in DOMAIN Groups :
                g \in DOMAIN DocumentGroups
                   => {Groups[g][i] : i \in DOMAIN Groups[g]}
                         = {DocumentGroups[g][i] : i \in DOMAIN DocumentGroups[g]}
          /\ Len(GsimRealizations) = ProductOfSizes(DocumentGroups, Len(DocumentGroups))
          /\ \A k1, k2 \in DOMAIN GsimRealizations :
                k1 # k2 => GsimRealizations[k1].lt_path # GsimRealizations[k2].lt_path
          /\ \A k \in DOMAIN GsimRealizations :
                /\ Len(GsimRealizations[k].lt_path) = Len(DocumentGroups)
                /\ GsimRealizations[k].weight
                      = <<ProductOfPathWeights(GsimRealizations[k].lt_path,
                                               Len(GsimRealizations[k].lt_path)),
                          Power(One, Len(GsimRealizations[k].lt_path))>>
          /\ SumOfNumerators(GsimRealizations, Len(GsimRealizations))
                = Power(One, Len(DocumentGroups))
          /\ \A r \in DOMAIN gsim_runs : gsim_runs[r] = GsimRealizations

(* the positions of a path whose branchset is not of type sourceModel *)
UncertaintyPositions(branch_ids) ==
    LET NotSourceModel(i) ==
            branchsets[PathBranchset(branch_ids, i)].uncertainty_type # "sourceModel"
    IN  SelectSeq([i \in DOMAIN branch_ids |-> i], NotSourceModel)

(* C16: the closure of make_apply_uncertainties(path) applies, in path
   order, exactly one uncertainty per non-sourceModel branchset of the path,
   the value of the path's branch in it, and nothing for the sourceModel
   branchset; the i-th id is looked up in the branchset reached along the
   child links of the ids before it. *)
C16_ApplyUncertaintiesFollowsPath ==
    (Constructed /\ kind = "SM")
       => /\ \A branch_ids \in TreePaths :
                /\ MakeApplyUncertainties(branch_ids).raised = "none"
                /\ \A i \in DOMAIN branch_ids :
                      HasBranch(PathBranchset(branch_ids, i), branch_ids[i])
                /\ MakeApplyUncertainties(branch_ids).value
                      = [k \in DOMAIN UncertaintyPositions(branch_ids) |->
                            <<PathBranchset(branch_ids, UncertaintyPositions(branch_ids)[k]),
                              branches[branch_ids[UncertaintyPositions(branch_ids)[k]]].value>>]
          /\ \A c \in DOMAIN calls :
                calls[c].method = "make_apply_uncertainties"
                   => calls[c].returned = MakeApplyUncertainties(calls[c].args)

C16_Witness ==
    /\ kind = "SM"
    /\ validate
    /\ Len(calls) = 1
    /\ calls[1].method = "make_apply_uncertainties"
    /\ Len(calls[1].args) = 3
    /\ calls[1].returned.raised = "none"
    /\ Len(calls[1].returned.value) = 2
    /\ calls[1].returned.value[1][1] = 2
    /\ calls[1].returned.value[2][1] = 3
    /\ branchsets[2].uncertainty_type = "abGRAbsolute"
    /\ branchsets[3].uncertainty_type = "bGRRelative"

(* C17: with max_block_size = m, no block returned by split or
   split_on_max_weight holds more than m items, whatever the input sequence
   and num_blocks. *)
C17_BlocksWithinMaxBlockSize ==
    (split_pc = "done" /\ max_block_size # NoneInt)
       => \A b \in DOMAIN blocks : Len(blocks[b]._seq) <= max_block_size

(* the branches of the branchsets parsed at a branching level *)
LevelBranches(level) ==
    {b \in DOMAIN branches :
        \E bs \in DOMAIN branchsets :
            /\ branchsets[bs].level = level
            /\ \E i \in DOMAIN branchsets[bs].branches : branchsets[bs].branches[i] = b}

(* the first branchset has been parsed and linked *)
FirstBranchsetLinked ==
    /\ Len(branchsets) >= 1
    /\ ~(Len(branchsets) = 1 /\ pc \in {"branches", "apply"})

(* C18: the first branchset parsed (not skipped) becomes root_branchset and is
   never replaced; every later branchset without applyToBranches becomes the
   child_branchset of every branch in open_ends, which are the branches of the
   immediately preceding level, and of no other branch. *)
C18_RootAndDefaultLinking ==
    /\ [](root_branchset = IF FirstBranchsetLinked THEN 1 ELSE 0)
    /\ [][(root_branchset # 0 /\ pc' # "error") => root_branchset' = root_branchset]_vars
    /\ [][(ApplyBranchset(<<>>) /\ root_branchset # 0)
          => /\ pc' = "branchset"
             /\ open_ends = LevelBranches(depth - 1)
             /\ \A b \in DOMAIN branches :
                   IF b \in open_ends
                   THEN branches'[b].child_branchset = cur
                   ELSE /\ branches'[b].child_branchset = branches[b].child_branchset
                        /\ branches'[b].child_branchset # cur]_vars

C18_Witness ==
    /\ kind = "SM"
    /\ validate
    /\ pc = "branchset"
    /\ root_branchset = 1
    /\ Len(branchsets) = 3
    /\ branchsets[3].level = 2
    /\ Cardinality(open_ends) = 2
    /\ \A b \in open_ends : branches[b].child_branchset = 3
    /\ \E b \in DOMAIN branches : b \notin open_ends /\ branches[b].child_branchset = 2

(* C19: once a branching level has been processed open_ends is exactly the
   set of branches of the branchsets parsed at that level, holds no branch of
   an earlier level and is empty if every branchset of the level was skipped;
   while a level is being processed open_ends still holds the branches of the
   level before it. *)
C19_OpenEndsAreLastLevel ==
    /\ [](pc # "error"
            => /\ open_ends = LevelBranches(depth - 1)
               /\ \A level \in 0..(depth - 2) : open_ends \cap LevelBranches(level) = {}
               /\ (\A bs \in DOMAIN branchsets : branchsets[bs].level # depth - 1)
                     => open_ends = {})
    /\ [][(depth' = depth /\ pc' # "error") => open_ends' = open_ends]_vars
    /\ [][depth' # depth => open_ends' = LevelBranches(depth)]_vars

C19_Witness ==
    /\ pc = "apply"
    /\ depth = 2
    /\ open_ends = LevelBranches(1)
    /\ Cardinality(open_ends) = 2
    /\ LevelBranches(0) # {}
    /\ LevelBranches(2) # {}

(* the branch ids an applyToBranches attribute lists *)
Listed(apply_to_branches) == {apply_to_branches[i] : i \in DOMAIN apply_to_branches}

(* a listed id is not yet defined, names a branch that already has a child
   branchset, or names a branch that is not an open end *)
ListsUnusableBranch(apply_to_branches) ==
    \E branch_id \in Listed(apply_to_branches) :
        \/ branch_id \notin DOMAIN branches
        \/ branches[branch_id].child_branchset # 0
        \/ branch_id \notin open_ends

(* what C20 says of a step that links the branchset just parsed, declaring
   the given applyToBranches *)
SelectiveLinking(apply_to_branches) ==
    /\ ListsUnusableBranch(apply_to_branches)
          => (pc' = "error" /\ err'.kind = "ValidationError")
    /\ pc' # "error"
          => \A b \in DOMAIN branches :
                IF b \in Listed(apply_to_branches)
                THEN branches'[b].child_branchset = cur
                ELSE /\ branches'[b].child_branchset = branches[b].child_branchset
                     /\ branches'[b].child_branchset # cur

(* C20 as stated: in a source model logic tree a branchset with
   applyToBranches is attached only to the listed branches, and construction
   fails with ValidationError if a listed id is not yet defined, names a
   branch that already has a child branchset, or names a branch outside the
   previous level's open ends. *)
C20_ApplyToBranchesChecked ==
    [][\A apply_to_branches \in ApplyToBranchesTexts :
          (kind = "SM" /\ apply_to_branches # <<>> /\ ApplyBranchset(apply_to_branches))
             => SelectiveLinking(apply_to_branches)]_vars

(* C20, amended: the same of every branchset but the first one parsed, which
   becomes the root and whose applyToBranches is not read. *)
C20_ApplyToBranchesCheckedBelowRoot ==
    /\ [][\A apply_to_branches \in ApplyToBranchesTexts :
             (kind = "SM" /\ apply_to_branches # <<>> /\ root_branchset # 0
                 /\ ApplyBranchset(apply_to_branches))
                => SelectiveLinking(apply_to_branches)]_vars
    /\ [][(pc = "apply" /\ root_branchset = 0)
             => (pc' = "branchset" /\ branches' = branches)]_vars

C20_Witness ==
    /\ kind = "SM"
    /\ validate
    /\ Constructed
    /\ \E b1 \in LevelBranches(0), b2 \in LevelBranches(0) :
          /\ branches[b1].child_branchset = 2
          /\ branches[b2].child_branchset = 0

(* C21: a child_branchset that has been set during construction is never
   replaced by a different branchset: the branchsets of one branching level
   are attached to pairwise disjoint sets of open ends, by applyToBranches or
   by the default rule. *)
C21_ChildBranchsetNeverReplaced ==
    [][\A b \in DOMAIN branches :
          (b \in DOMAIN branches' /\ branches[b].child_branchset # 0)
             => branches'[b].child_branchset = branches[b].child_branchset]_vars

(* the branching level of a branch: that of the branchset that holds it *)
BranchLevel(b) ==
    branchsets[CHOOSE bs \in DOMAIN branchsets : HasBranch(bs, b)].level

RECURSIVE BranchsetsAfter(_)
(* the branchsets met after following k child links from root_branchset *)
BranchsetsAfter(k) ==
    IF k = 0 THEN {root_branchset} \ {0}
    ELSE {branches[b].child_branchset :
             b \in {x \in DOMAIN branches : \E bs \in BranchsetsAfter(k - 1) : HasBranch(bs, x)}}
         \ {0}

(* C22: a branch's child_branchset belongs to a strictly later branching
   level than the branch, so following child links from root_branchset never
   revisits a branchset and comes to an end within as many steps as there are
   levels: enumerate_paths and sample_path terminate, and no path they yield
   is longer than the number of levels or names a branch twice. *)
C22_ChildLinksDescend ==
    /\ \A b \in DOMAIN branches :
          branches[b].child_branchset # 0
             => branchsets[branches[b].child_branchset].level > BranchLevel(b)
    /\ \A k \in 0..depth : \A bs \in BranchsetsAfter(k) : branchsets[bs].level >= k
    /\ Constructed => BranchsetsAfter(depth) = {}
    /\ \A path \in AllYieldedPaths :
          /\ Len(path) <= depth
          /\ \A i, j \in DOMAIN path :
                i < j => BranchLevel(path[i]) < BranchLevel(path[j])

C22_Witness ==
    /\ Constructed
    /\ depth = 3
    /\ BranchsetsAfter(2) # {}
    /\ Len(runs) = 1
    /\ num_samples > 0
    /\ \E k \in DOMAIN runs[1] : Len(runs[1][k].lt_path) = 3

RECURSIVE Advanced(_, _)
(* the generator after n draws *)
Advanced(state, n) == IF n = 0 THEN state ELSE RandomAdvance(Advanced(state, n - 1))

(* the branch list position at which the running sum of the weights first
   reaches the draw (0 if it never does) *)
FirstReaching(branch_list, diceroll) ==
    LET Reached(n) == CumulativeWeight(branch_list, n) * DrawsPerTenth >= diceroll
    IN  IF \E n \in DOMAIN branch_list : Reached(n)
        THEN CHOOSE n \in DOMAIN branch_list :
                 Reached(n) /\ \A m \in 1..(n - 1) : ~Reached(m)
        ELSE 0

(* C23: sample_one takes one draw and returns the first branch, in declared
   order, whose cumulative weight is >= the draw; for a branchset whose
   weights sum to 1 and a draw in [0, 1) it always returns a branch, never
   reaching its AssertionError. *)
C23_SampleOneFirstReaching ==
    /\ \A bs \in ParsedBranchsets : \A diceroll \in 0..(RandomRange - 1) :
          LET branch_list == branchsets[bs].branches
              n == FirstReaching(branch_list, diceroll)
          IN  n # 0 /\ SampleOne(branch_list, diceroll) = branch_list[n]
    /\ (Constructed /\ HasBranchset)
          => \A state \in 0..(RandomRange - 1) :
                LET p == SamplePath(state)
                IN  ~p.raised /\ p.rnd = Advanced(state, Len(p.branch_ids))
    /\ \A r \in DOMAIN runs : Len(runs[r]) = num_samples

C23_Witness ==
    /\ Len(runs) = 1
    /\ num_samples = MaxSamples
    /\ Len(branchsets) = 1
    /\ WeightsOf(1) = <<3, 7>>
    /\ seed = 6
    /\ runs[1][1].lt_path = <<branchsets[1].branches[1]>>
    /\ runs[1][2].lt_path = <<branchsets[1].branches[2]>>

(* the branch-id paths enumerate_paths yields from root_branchset *)
EnumeratedPaths ==
    {EnumerationRealizations[k].lt_path : k \in 1..Len(EnumerationRealizations)}

(* C24: every path sample_path returns is a complete root-to-leaf path: it
   starts at a branch of root_branchset, each following id is a branch of the
   child_branchset of the one before, and its last branch has no child
   branchset; so it is one of the paths enumerate_paths yields for the tree. *)
C24_SampledPathIsRootToLeaf ==
    (Constructed /\ HasBranchset)
       => LET sampled == {SamplePath(state).branch_ids : state \in 0..(RandomRange - 1)}
              yielded == IF num_samples > 0
                         THEN UNION {{runs[r][k].lt_path : k \in DOMAIN runs[r]} :
                                        r \in DOMAIN runs}
                         ELSE {}
          IN  /\ sampled \cup yielded \subseteq RootToLeafPaths
              /\ sampled \cup yielded \subseteq EnumeratedPaths

C24_Witness ==
    /\ Constructed
    /\ kind = "SM"
    /\ num_samples > 0
    /\ Len(runs) = 1
    /\ Len(runs[1][1].lt_path) = 1
    /\ Len(runs[1][2].lt_path) = 3

(* C25: sampling never selects a branch of weight 0: for a branchset whose
   weights sum to 1 and any draw in [0, 1), a draw of exactly 0 included, the
   branch sample_one returns has weight > 0, so every sampled path has a
   non-zero weight. *)
C25_SampledWeightIsPositive ==
    /\ \A bs \in ParsedBranchsets : \A diceroll \in 0..(RandomRange - 1) :
          branches[SampleOne(branchsets[bs].branches, diceroll)].weight > 0
    /\ num_samples > 0
          => \A r \in DOMAIN runs : \A k \in DOMAIN runs[r] :
                \A i \in DOMAIN runs[r][k].lt_path :
                   branches[runs[r][k].lt_path[i]].weight > 0

(* the uncertainty types that modify a Gutenberg-Richter model *)
GRUncertainties == {"abGRAbsolute", "bGRRelative", "maxMagGRRelative", "maxMagGRAbsolute"}

(* the model after the one modification the uncertainty type chooses *)
ModifiedOnce(uncertainty_type, mfd, value) ==
    IF uncertainty_type = "abGRAbsolute"
    THEN [mfd EXCEPT !.a_val = value.a, !.b_val = value.b, !.modified = <<"set_ab">>]
    ELSE IF uncertainty_type = "bGRRelative"
    THEN [mfd EXCEPT !.b_val = mfd.b_val + value, !.modified = <<"increment_b">>]
    ELSE IF uncertainty_type = "maxMagGRRelative"
    THEN [mfd EXCEPT !.max_mag = mfd.max_mag + value, !.modified = <<"increment_max_mag">>]
    ELSE [mfd EXCEPT !.max_mag = value, !.modified = <<"set_max_mag">>]

ApplyUncertaintyCalls == {c \in DOMAIN calls : calls[c].method = "apply_uncertainty"}

(* what filter_source did in a recorded call of apply_uncertainty *)
Passes(c) == FilterSource(calls[c].args.branchset, calls[c].args.source, calls[c].args.keys)

TypeOfCall(c) == branchsets[calls[c].args.branchset].uncertainty_type

Untouched(c) == calls[c].returned.source = calls[c].args.source

(* the model of the source given to the call is of the Gutenberg-Richter family *)
OfGRFamily(c) == calls[c].args.source.mfd.family = "TruncatedGRMFD"

(* C26 as stated: apply_uncertainty leaves the source and its model unchanged
   and raises nothing when filter_source returns false or the model is not
   Gutenberg-Richter; it modifies the model only when both conditions hold,
   and then performs exactly one modification, chosen by the branchset's
   uncertainty type. *)
C26_ApplyUncertaintyFrame ==
    \A c \in ApplyUncertaintyCalls :
        LET source == calls[c].args.source
            returned == calls[c].returned
        IN  /\ (Passes(c) = "False" \/ ~OfGRFamily(c))
                  => (returned.raised = "none" /\ Untouched(c))
            /\ ~Untouched(c) => (Passes(c) = "True" /\ OfGRFamily(c))
            /\ (Passes(c) = "True" /\ OfGRFamily(c))
                  => /\ returned.raised = "none"
                     /\ Len(returned.source.mfd.modified) = 1

(* C26, amended: the same for the four Gutenberg-Richter uncertainty types
   and whenever filter_source returns; a branchset of another type raises
   AssertionError where it would modify, and so does filter_source on a
   source type it does not know, the source untouched in both cases. *)
C26_ApplyUncertaintyFrameOfGRTypes ==
    \A c \in ApplyUncertaintyCalls :
        LET source == calls[c].args.source
            returned == calls[c].returned
        IN  /\ (Passes(c) = "False" \/ (Passes(c) = "True" /\ ~OfGRFamily(c)))
                  => (returned.raised = "none" /\ Untouched(c))
            /\ ~Untouched(c)
                  => /\ Passes(c) = "True"
                     /\ OfGRFamily(c)
                     /\ TypeOfCall(c) \in GRUncertainties
            /\ (Passes(c) = "True" /\ OfGRFamily(c)
                   /\ TypeOfCall(c) \in GRUncertainties)
                  => /\ returned.raised = "none"
                     /\ returned.source
                           = [source EXCEPT !.mfd = ModifiedOnce(TypeOfCall(c), source.mfd,
                                                                 calls[c].args.value)]
            /\ (Passes(c) = "True" /\ OfGRFamily(c)
                   /\ TypeOfCall(c) \notin GRUncertainties)
                  => (returned.raised = "AssertionError" /\ Untouched(c))
            /\ Passes(c) = "AssertionError"
                  => (returned.raised = "AssertionError" /\ Untouched(c))

C26_Witness ==
    /\ validate
    /\ ApplyUncertaintyCalls = {1}
    /\ TypeOfCall(1) = "maxMagGRAbsolute"
    /\ Passes(1) = "True"
    /\ calls[1].returned.source.mfd.modified = <<"set_max_mag">>
    /\ calls[1].returned.source.mfd.max_mag # calls[1].args.source.mfd.max_mag

(* a branchset node that C27 says a validated source model tree rejects: at
   the first level a second node, another type than sourceModel or a filter;
   at a later level the type sourceModel or gmpeModel *)
RejectedBySourceModelTree(h, level, n) ==
    IF level = 0
    THEN n > 0 \/ h.uncertaintyType # "sourceModel" \/ h.attrib # NoFilters
    ELSE h.uncertaintyType \in {"sourceModel", "gmpeModel"}

(* C27: with validation on, a source model tree is accepted only if its
   first branching level holds exactly one branchset, of type sourceModel and
   without filters, and no later branchset is of type sourceModel or
   gmpeModel; each violation aborts construction with ValidationError. *)
C27_SourceModelShape ==
    /\ []((kind = "SM" /\ validate)
            => /\ \A bs \in DOMAIN branchsets :
                     IF branchsets[bs].level = 0
                     THEN /\ bs = 1
                          /\ branchsets[bs].uncertainty_type = "sourceModel"
                          /\ branchsets[bs].filters = NoFilters
                     ELSE branchsets[bs].uncertainty_type \notin {"sourceModel", "gmpeModel"}
               /\ (Constructed /\ depth > 0)
                     => Cardinality({bs \in DOMAIN branchsets : branchsets[bs].level = 0}) = 1)
    /\ [][(kind = "SM" /\ validate /\ ParseBranchsetStep
              /\ RejectedBySourceModelTree(node', depth, number))
          => (pc' = "error" /\ err'.kind = "ValidationError")]_vars

C27_Witness ==
    /\ kind = "SM"
    /\ validate
    /\ Constructed
    /\ depth = 2
    /\ Len(branchsets) = 2
    /\ branchsets[2].uncertainty_type = "maxMagGRRelative"
    /\ branchsets[2].filters # NoFilters


-----------------------------------------------------------------------------
(* one turn of the loop of parse_branchinglevel on a branchset node: the
   node is skipped, parsed or rejected *)
BranchsetNodeStep ==
    /\ pc = "branchset"
    /\ \/ pc' \in {"branches", "error"}
       \/ number' = number + 1

(* the loop of parse_branchinglevel ends *)
BranchingLevelEnds ==
    /\ pc = "branchset"
    /\ depth' = depth + 1

(* C28: with validation on, every branching level of a GMPE logic tree that
   ends has had exactly one branchset node, skipped nodes counted, and the
   second or a later branchset node of a level that declares a region type
   aborts construction with ValidationError. *)
C28_OneBranchsetNodePerLevel ==
    [][(kind = "GMPE" /\ validate)
          => /\ BranchingLevelEnds => number = 1
             /\ (/\ BranchsetNodeStep
                 /\ number >= 1
                 /\ "applyToTectonicRegionType" \in DOMAIN node'.attrib)
                   => (pc' = "error" /\ err'.kind = "ValidationError")]_vars

(* a GMPE tree is returned with validation on whose second level held two
   branchset nodes, the second one skipped *)
C28_TwoNodeLevelAccepted ==
    /\ kind = "GMPE"
    /\ validate
    /\ Constructed
    /\ depth = 2
    /\ Len(branchsets) = 2
    /\ node.attrib = Filter("applyToTectonicRegionType", "T3")


-----------------------------------------------------------------------------
(* the branches of the parsed branchsets of a known region type *)
BranchesOfKnownTrts ==
    UNION {BranchSetOf(bs) :
              bs \in {k \in 1..Len(branchsets) : TrtOf(k) \in tectonic_region_types}}

(* C29: a GMPE branchset node whose applyToTectonicRegionType is outside the
   known set is skipped without error, with validation on or off: the step
   leaves the index, the branchsets, the root, the open ends and the defined
   set as they were and goes on to the next node, so that every indexed
   branch, every open end and every branch of a yielded path belongs to a
   branchset of a known type, and the defined types are known types. *)
C29_UnknownTrtSkipped ==
    /\ [](kind = "GMPE"
            => /\ \A bs \in 1..Len(branchsets) : TrtOf(bs) \in tectonic_region_types
               /\ DOMAIN branches \subseteq BranchesOfKnownTrts
               /\ open_ends \cup new_open_ends \subseteq BranchesOfKnownTrts
               /\ \A path \in AllYieldedPaths :
                     \A i \in DOMAIN path : path[i] \in BranchesOfKnownTrts
               /\ defined_tectonic_region_types \subseteq tectonic_region_types)
    /\ [][\A h \in TreeNodes("GMPE") :
            (/\ kind = "GMPE"
             /\ ParseBranchset(h)
             /\ "applyToTectonicRegionType" \in DOMAIN h.attrib
             /\ h.attrib["applyToTectonicRegionType"] \notin tectonic_region_types)
          => /\ UNCHANGED <<branches, branchsets, root_branchset, open_ends,
                            new_open_ends, defined_tectonic_region_types, pc, err>>
             /\ number' = number + 1]_vars

C29_Witness ==
    /\ kind = "GMPE"
    /\ ~validate
    /\ Constructed
    /\ depth = 2
    /\ Len(branchsets) = 1
    /\ node.attrib = Filter("applyToTectonicRegionType", "T3")
    /\ Len(runs) = 1


-----------------------------------------------------------------------------
(* GMPE trees over documents whose branchset nodes carry no filter, the
   region type filter alone, another filter alone, or both *)

MaxGmpeFilterNodes == 2

GmpeFilterAttribs ==
    {NoFilters, Filter("applyToSourceType", "point")}
       \cup {Filter("applyToTectonicRegionType", trt) : trt \in {"T1", "T2", "T3"}}
       \cup {Filter("applyToSourceType", "point") @@ Filter("applyToTectonicRegionType", trt) :
                trt \in {"T1", "T3"}}

GmpeFilterNodes == {BranchSetNode("gmpeModel", attrib) : attrib \in GmpeFilterAttribs}

InitGmpeFilters ==
    /\ Init
    /\ kind = "GMPE"

NextGmpeFilters ==
    \/ \E h \in GmpeFilterNodes : Len(branchsets) < MaxGmpeFilterNodes /\ ParseBranchset(h)
    \/ \E b \in 1..(Len(branches) + 1), w \in FilterWeights : ParseBranch(b, w)
    \/ EndParseBranches
    \/ ApplyBranchset(<<>>)
    \/ EndBranchingLevel
    \/ \E sd \in {0}, n \in {0} : ParseTreeEnd(sd, n)
    \/ Iterate

SpecGmpeFilters == InitGmpeFilters /\ [][NextGmpeFilters]_vars

(* C30: with validation on, a GMPE branchset node that declares no
   applyToTectonicRegionType filter, or another filter besides it, aborts
   construction, and the error is a ValidationError. *)
C30_GmpeFilterErrorIsValidationError ==
    [][\A h \in GmpeFilterNodes :
          (/\ kind = "GMPE"
           /\ validate
           /\ ParseBranchset(h)
           /\ DOMAIN h.attrib # {"applyToTectonicRegionType"})
          => (pc' = "error" /\ err'.kind = "ValidationError")]_vars

(* with validation on, the constructor has raised KeyError on a node
   without applyToTectonicRegionType *)
C30_KeyErrorRaised ==
    /\ kind = "GMPE"
    /\ validate
    /\ pc = "error"
    /\ err.kind = "KeyError"
    /\ "applyToTectonicRegionType" \notin DOMAIN node.attrib

(* with validation on, construction goes on after a node of an unknown
   region type that declared a second filter *)
C30_TwoFiltersSkipped ==
    /\ kind = "GMPE"
    /\ validate
    /\ pc = "branchset"
    /\ number = 1
    /\ err = NoError
    /\ node.attrib = Filter("applyToSourceType", "point")
                        @@ Filter("applyToTectonicRegionType", "T3")

=============================================================================
